---- MODULE Spec2Model ----
(***************************************************************************)
(* Model of the application service of the PDF generator: form validation, *)
(* the user and submission repositories, the file storage service and the  *)
(* submission lifecycle (processApplication, reprocessSubmission,          *)
(* downloadSubmissionPdf, deleteSubmission), and around it the HTTP routes, *)
(* the paginated listing of the repository and ErrorUtils.retryOperation.   *)
(*                                                                         *)
(* Strings are run-length encoded: a string is a sequence of runs <<c, n>>,*)
(* the character c repeated n >= 1 times, so that the length limits of the *)
(* validators (50, 5000) are reached by short sequences.  The empty string *)
(* is <<>>.  A JavaScript object with optional keys is a function whose    *)
(* DOMAIN is the set of keys that are present (not undefined).             *)
(***************************************************************************)
EXTENDS Integers, Sequences, FiniteSets, TLC

(* ------------------------------------------------------------------ *)
(* Strings                                                            *)
(* ------------------------------------------------------------------ *)

Run(c, n) == <<c, n>>

RECURSIVE StrLen(_)
StrLen(s) == IF s = <<>> THEN 0 ELSE s[1][2] + StrLen(Tail(s))

\* Merges adjacent runs of the same character: one string, one encoding.
RECURSIVE Norm(_)
Norm(s) ==
    IF Len(s) < 2 THEN s
    ELSE IF s[1][1] = s[2][1]
         THEN Norm(<<Run(s[1][1], s[1][2] + s[2][2])>> \o Tail(Tail(s)))
         ELSE <<s[1]>> \o Norm(Tail(s))

\* The characters the regular expressions of the validators tell apart.
LowerLetters == {"a", "b", "d", "e", "f", "p", "t", "x"}
UpperLetters == {"A", "P", "D", "F"}
Letters == LowerLetters \cup UpperLetters
NonZeroDigits == {"1"}
Digits == NonZeroDigits \cup {"0"}
WhiteSpace == {" "}

IsSpace(r) == r[1] \in WhiteSpace

RECURSIVE TrimStart(_)
TrimStart(s) == IF s # <<>> /\ IsSpace(s[1]) THEN TrimStart(Tail(s)) ELSE s

RECURSIVE TrimEnd(_)
TrimEnd(s) ==
    IF s # <<>> /\ IsSpace(s[Len(s)]) THEN TrimEnd(SubSeq(s, 1, Len(s) - 1)) ELSE s

\* String.prototype.trim
trim(s) == TrimEnd(TrimStart(s))

\* String.prototype.toLowerCase
LowerOf(c) ==
    CASE c = "A" -> "a" [] c = "P" -> "p" [] c = "D" -> "d" [] c = "F" -> "f"
      [] OTHER -> c
\* A variant that keeps the case of the letters.
keepCase(s) == Norm(s)

toLowerCase(s) == Norm([i \in 1..Len(s) |-> Run(LowerOf(s[i][1]), s[i][2])])

\* replace(/[...]/g, ''): drops the runs of the characters of cs
RemoveChars(s, cs) == Norm(SelectSeq(s, LAMBDA r : r[1] \notin cs))

\* replace(/\s+/g, ' '): every maximal run of white space becomes one space
CollapseSpace(s) ==
    LET n == Norm(s)
    IN  [i \in 1..Len(n) |-> IF IsSpace(n[i]) THEN Run(" ", 1) ELSE n[i]]

\* /^[cs]+$/.test(s)
AllIn(s, cs) == s # <<>> /\ \A i \in 1..Len(s) : s[i][1] \in cs

\* s.split(/\s+/).length for a trimmed s
WordCount(s) ==
    LET n == Norm(s)
    IN  Cardinality({i \in 1..Len(n) : IsSpace(n[i])}) + 1

(* ------------------------------------------------------------------ *)
(* ValidationUtils                                                    *)
(* ------------------------------------------------------------------ *)

NameMinLength == 2
NameMaxLength == 50
JobDescriptionMinLength == 10
JobDescriptionMaxLength == 5000
JobDescriptionMinWords == 5
PhoneMinDigits == 10
PhoneMaxDigits == 15
PhoneMinTail == 8
PhoneMaxTail == 20
EmailMinTld == 2

DangerousChars == {"<", ">", "\"", "'", "&"}
NameChars == Letters \cup WhiteSpace \cup {"-", "'"}
EmailLocalChars == Letters \cup Digits \cup {".", "_", "%", "+", "-"}
EmailDomainChars == Letters \cup Digits \cup {".", "-"}
PhoneChars == Digits \cup WhiteSpace \cup {"-", "(", ")"}

\* /^[a-zA-Z0-9._%+-]+@[a-zA-Z0-9.-]+\.[a-zA-Z]{2,}$/.test(email.trim())
isValidEmail(email) ==
    LET t == Norm(trim(email))
        ats == {i \in 1..Len(t) : t[i][1] = "@"}
        dots == {i \in 1..Len(t) : t[i][1] = "."}
    IN  /\ Cardinality(ats) = 1
        /\ LET at == CHOOSE i \in ats : TRUE
               after == {j \in dots : j > at}
           IN  /\ t[at][2] = 1
               /\ AllIn(SubSeq(t, 1, at - 1), EmailLocalChars)
               /\ after # {}
               /\ LET dot == CHOOSE j \in after : \A k \in after : k <= j
                      tld == SubSeq(t, dot + 1, Len(t))
                  IN  /\ AllIn(tld, Letters)
                      /\ StrLen(tld) >= EmailMinTld
                      /\ \A i \in (at + 1)..(dot - 1) : t[i][1] \in EmailDomainChars
                      /\ (dot > at + 1 \/ t[dot][2] >= 2)

\* digit count 10..15 and /^[\+]?[1-9][\d\s\-\(\)]{8,20}$/.test(phone.trim())
isValidPhoneNumber(phone) ==
    LET digitsOnly == SelectSeq(phone, LAMBDA r : r[1] \in Digits)
        t == Norm(trim(phone))
        plus == t # <<>> /\ t[1][1] = "+"
        body == IF plus THEN Tail(t) ELSE t
    IN  /\ ~(StrLen(digitsOnly) < PhoneMinDigits \/ StrLen(digitsOnly) > PhoneMaxDigits)
        /\ (plus => t[1][2] = 1)
        /\ body # <<>>
        /\ body[1][1] \in NonZeroDigits
        /\ AllIn(body, PhoneChars)
        /\ StrLen(body) - 1 >= PhoneMinTail
        /\ StrLen(body) - 1 <= PhoneMaxTail

\* /^[a-zA-Z\s\-']+$/ on the trimmed name, trimmed length 2..50
isValidName(name) ==
    /\ ~(name = <<>> \/ StrLen(trim(name)) < NameMinLength)
    /\ AllIn(trim(name), NameChars)
    /\ StrLen(trim(name)) <= NameMaxLength

isValidJobDescription(description) ==
    /\ ~(description = <<>> \/ StrLen(trim(description)) < JobDescriptionMinLength)
    /\ ~(StrLen(trim(description)) > JobDescriptionMaxLength)
    /\ WordCount(trim(description)) >= JobDescriptionMinWords

sanitizeString(input) == CollapseSpace(RemoveChars(trim(input), DangerousChars))

Has(data, f) == f \in DOMAIN data

\* The fields validateAndSanitizeFormData records an error for.
FormErrorFields(data) ==
    {f \in {"firstName", "lastName"} :
        Has(data, f) /\ ~isValidName(sanitizeString(data[f]))}
    \cup {f \in {"email"} :
        Has(data, f) /\ ~isValidEmail(toLowerCase(trim(data[f])))}
    \cup {f \in {"phone"} :
        Has(data, f) /\ trim(data[f]) # <<>> /\ ~isValidPhoneNumber(trim(data[f]))}
    \cup {f \in {"jobDescription"} :
        Has(data, f) /\ ~isValidJobDescription(sanitizeString(data[f]))}

SanitizedField(data, f) ==
    CASE f \in {"firstName", "lastName", "jobDescription"} -> sanitizeString(data[f])
      [] f = "email" -> toLowerCase(trim(data[f]))
      [] f = "phone" -> trim(data[f])

validateAndSanitizeFormData(data) ==
    LET errors == [f \in FormErrorFields(data) |-> f]
        kept == {f \in DOMAIN data \ DOMAIN errors :
                    f = "phone" => trim(data[f]) # <<>>}
    IN  [isValid |-> DOMAIN errors = {},
         errors |-> errors,
         sanitizedData |-> [f \in kept |-> SanitizedField(data, f)]]

(* ------------------------------------------------------------------ *)
(* File names, uploads and the upload validator                       *)
(* ------------------------------------------------------------------ *)

Str(cs) == [i \in 1..Len(cs) |-> Run(cs[i], 1)]

MaxFileSize == 10485760
MaxNameLength == 255

AllowedMimeTypes == {"application/pdf"}

isValidFileSize(size, maxSize) == size > 0 /\ size <= maxSize

isValidFileType(mimeType, allowedTypes) == mimeType \in allowedTypes

LastDot(name) ==
    LET dots == {i \in 1..Len(name) : name[i][1] = "."}
    IN  IF dots = {} THEN 0 ELSE CHOOSE j \in dots : \A k \in dots : k <= j

\* fileName.toLowerCase().substring(fileName.lastIndexOf('.')): the whole name
\* when it has no dot (substring(-1) is substring(0))
SubstringFromLastDot(name) ==
    LET n == toLowerCase(name)
        j == LastDot(n)
    IN  IF j = 0 THEN n ELSE <<Run(".", 1)>> \o SubSeq(n, j + 1, Len(n))

DangerousExtensions ==
    {Str(<<".", "e", "x", "e">>), Str(<<".", "b", "a", "t">>),
     Str(<<".", "c", "m", "d">>), Str(<<".", "c", "o", "m">>),
     Str(<<".", "p", "i", "f">>), Str(<<".", "s", "c", "r">>),
     Str(<<".", "v", "b", "s">>), Str(<<".", "j", "s">>),
     Str(<<".", "j", "a", "r">>), Str(<<".", "a", "p", "p">>),
     Str(<<".", "d", "e", "b">>), Str(<<".", "p", "k", "g">>),
     Str(<<".", "d", "m", "g">>), Str(<<".", "s", "h">>),
     Str(<<".", "p", "s", "1">>)}

isDangerousFileName(fileName) ==
    LET n == Norm(fileName)
    IN  \/ \E i \in 1..Len(n) :
              \/ n[i][1] \in {"/", "\\"}
              \/ n[i][1] = "." /\ n[i][2] >= 2
        \/ SubstringFromLastDot(n) \in DangerousExtensions

\* The messages validateFileUpload collects, in the order it pushes them.
validateFileUpload(file) ==
    LET nameErr == IF file.name = <<>> \/ StrLen(trim(file.name)) = 0
                   THEN <<"File name is required">>
                   ELSE IF StrLen(file.name) > MaxNameLength
                        THEN <<"File name must be less than">>
                        ELSE <<>>
        sizeErr == IF ~isValidFileSize(file.size, MaxFileSize)
                   THEN <<"File size must be less than">> ELSE <<>>
        typeErr == IF ~isValidFileType(file.type, AllowedMimeTypes)
                   THEN <<"File type must be one of">> ELSE <<>>
        dangerErr == IF isDangerousFileName(file.name)
                     THEN <<"File name contains potentially dangerous characters">>
                     ELSE <<>>
        errors == nameErr \o sizeErr \o typeErr \o dangerErr
    IN  [isValid |-> Len(errors) = 0, errors |-> errors]

(* ------------------------------------------------------------------ *)
(* FileStorageService                                                 *)
(* ------------------------------------------------------------------ *)

NoPath == <<>>
NoBuffer == [header |-> "", length |-> 0, content |-> <<>>]
TempScope == 0

\* path.extname(originalName)
extname(name) ==
    LET n == Norm(name)
        j == LastDot(n)
    IN  IF j = 0 \/ (j = 1 /\ n[1][2] = 1) \/ n = <<Run(".", 2)>> THEN <<>>
        ELSE <<Run(".", 1)>> \o SubSeq(n, j + 1, Len(n))

\* A variant of the table of extensions with no entry.
ExpectedExtensionsNone(mimeType) == {}

ExpectedExtensions(mimeType) ==
    CASE mimeType = "application/pdf" -> {Str(<<".", "p", "d", "f">>)}
      [] mimeType = "text/plain" -> {Str(<<".", "t", "x", "t">>)}
      [] OTHER -> {}

\* FileStorageService.validateFile: the error it throws, "" when it accepts
\* validateFile with the size check alone.
validateFileSizeOnly(file, mimeType, originalName) ==
    IF file.length > MaxFileSize THEN "File size exceeds maximum allowed size"
    ELSE ""

validateFile(file, mimeType, originalName) ==
    IF file.length > MaxFileSize THEN "File size exceeds maximum allowed size"
    ELSE IF mimeType \notin AllowedMimeTypes THEN "File type is not allowed"
    ELSE IF ExpectedExtensions(mimeType) # {}
            /\ toLowerCase(extname(originalName)) \notin ExpectedExtensions(mimeType)
         THEN "File extension does not match MIME type"
    ELSE IF mimeType = "application/pdf" /\ file.header # "%PDF"
         THEN "Invalid PDF file: Missing PDF header"
    ELSE ""

\* A variant of the stored path whose file name is not unique.
StoragePathFixed(scope, uuid, originalName) ==
    <<"uploads", 0, 0, extname(originalName)>>

\* path.join('uploads', submissionId, `${uuidv4()}${fileExtension}`)
StoragePath(scope, uuid, originalName) ==
    <<"uploads", scope, uuid, extname(originalName)>>

(* ------------------------------------------------------------------ *)
(* State                                                              *)
(* ------------------------------------------------------------------ *)

\* The number of concurrent callers of the service, and of calls made in all.
NumProcs == 2
MaxCalls == 3

Procs == 1..NumProcs

VARIABLES
    users,        \* the user table: the sequence of rows, a user's id its index
    submissions,  \* the submission table: id -> row, for the ids that exist
    files,        \* the storage directory: relative path -> bytes
    calls,        \* each caller's call of the service: its position and locals
    subCount,     \* submission ids handed out so far (ids are never reused)
    fileCount,    \* file names (uuids) handed out so far
    started,      \* calls started so far
    response      \* what the call that ended last gave its caller

vars == <<users, submissions, files, calls, subCount, fileCount, started, response>>

PENDING == "pending"
PROCESSING == "processing"
COMPLETED == "completed"
REJECTED == "rejected"
FAILED == "failed"
SubmissionStatus == {PENDING, PROCESSING, COMPLETED, REJECTED, FAILED}

NoRow ==
    [userId |-> 0, jobDescription |-> <<>>, status |-> "", generatedPdfPath |-> NoPath,
     uploadedFileName |-> <<>>, uploadedFilePath |-> NoPath]

NoResult ==
    [success |-> FALSE, submissionId |-> 0, pdfDownloadUrl |-> <<>>, status |-> "",
     buffer |-> NoBuffer, mimeType |-> ""]

IdleCall ==
    [op |-> "none", pc |-> "idle", form |-> <<>>, upload |-> <<>>, sid |-> 0,
     userId |-> 0, sub |-> NoRow, filePath |-> NoPath, pdfBuffer |-> NoBuffer,
     pdfPath |-> NoPath, caught |-> "", error |-> "", result |-> NoResult]

Ended == {"done", "failed"}

\* `/api/submissions/${id}/download`
DownloadUrl(id) == <<"/api/submissions/", id, "/download">>

\* A call that throws msg to its caller, and one that returns res.
Throw(c, msg) == [c EXCEPT !.pc = "failed", !.error = msg]

Return(c, res) == [c EXCEPT !.pc = "done", !.result = res]

\* Caller p's call goes on as c; when c has ended, the caller has its response
\* and is free to call again.
Set(p, c) ==
    IF c.pc \in Ended
    THEN /\ calls' = [calls EXCEPT ![p] = IdleCall]
         /\ response' = [op |-> c.op, outcome |-> c.pc, sid |-> c.sid,
                         form |-> c.form, upload |-> c.upload,
                         error |-> c.error, result |-> c.result]
    ELSE /\ calls' = [calls EXCEPT ![p] = c]
         /\ UNCHANGED response

(* ------------------------------------------------------------------ *)
(* Inputs                                                             *)
(* ------------------------------------------------------------------ *)

FiveWords ==
    <<Run("a", 2), Run(" ", 1), Run("b", 2), Run(" ", 1), Run("a", 2), Run(" ", 1),
      Run("b", 2), Run(" ", 1), Run("a", 2)>>
ThreeWords == <<Run("a", 6), Run(" ", 1), Run("b", 6), Run(" ", 1), Run("a", 6)>>
EmailAda == Str(<<"a", "@", "b", ".">>) \o <<Run("a", 2)>>
EmailAdaRaw == <<Run(" ", 1), Run("A", 1)>> \o Str(<<"@", "b", ".">>) \o <<Run("a", 2)>>

FormAda ==
    [firstName |-> <<Run("a", 3)>>, lastName |-> <<Run("b", 8)>>, email |-> EmailAda,
     jobDescription |-> FiveWords]
FormAdaRaw ==
    [firstName |-> <<Run("a", 3)>>, lastName |-> <<Run("b", 8)>>, email |-> EmailAdaRaw,
     phone |-> <<Run(" ", 1)>>, jobDescription |-> FiveWords]
FormThreeWords ==
    [firstName |-> <<Run("a", 3)>>, lastName |-> <<Run("b", 8)>>, email |-> EmailAda,
     jobDescription |-> ThreeWords]
FormNoFirstName ==
    [lastName |-> <<Run("b", 8)>>, email |-> EmailAda, jobDescription |-> FiveWords]

Forms == {FormAda, FormAdaRaw, FormThreeWords, FormNoFirstName}

ResumePdf == Str(<<"a", ".", "p", "d", "f">>)
ResumeTxt == Str(<<"a", ".", "t", "x", "t">>)

UploadBuffer(header, length) == [header |-> header, length |-> length, content |-> <<"upload">>]

Upload(name, type, buffer) ==
    <<[buffer |-> buffer, originalName |-> name, mimeType |-> type, size |-> buffer.length]>>

\* No upload (<<>>), a 2 MB PDF, a file of a type outside the allow-list, and a
\* PDF by name and type whose bytes lack the %PDF header.
Uploads ==
    {<<>>,
     Upload(ResumePdf, "application/pdf", UploadBuffer("%PDF", 2097152)),
     Upload(ResumePdf, "application/exe", UploadBuffer("%PDF", 2097152)),
     Upload(ResumePdf, "application/pdf", UploadBuffer("JUNK", 2097152))}

\* The uploads the validators turn down, one for each check: by
\* validateFileUpload a type outside the allow-list, a size of 0, a size above
\* the maximum, an empty name, a name of 256 characters, a name with an
\* executable extension and one with '..'; by the storage's validateFile an
\* extension that does not match the type, and bytes without the %PDF header.
UploadExeType == Upload(ResumePdf, "application/exe", UploadBuffer("%PDF", 2097152))
UploadEmpty == Upload(ResumePdf, "application/pdf", UploadBuffer("", 0))
UploadTooLarge == Upload(ResumePdf, "application/pdf", UploadBuffer("%PDF", 10485761))
UploadNoName == Upload(<<>>, "application/pdf", UploadBuffer("%PDF", 2097152))
UploadLongName ==
    Upload(<<Run("a", 252)>> \o Str(<<".", "p", "d", "f">>), "application/pdf",
           UploadBuffer("%PDF", 2097152))
UploadExeName ==
    Upload(Str(<<"a", ".", "e", "x", "e">>), "application/pdf",
           UploadBuffer("%PDF", 2097152))
UploadDotDot ==
    Upload(<<Run(".", 2), Run("/", 1)>> \o ResumePdf, "application/pdf",
           UploadBuffer("%PDF", 2097152))
UploadTxtName == Upload(ResumeTxt, "application/pdf", UploadBuffer("%PDF", 2097152))
UploadNoHeader == Upload(ResumePdf, "application/pdf", UploadBuffer("JUNK", 2097152))

UploadCases ==
    Uploads \cup {UploadExeType, UploadEmpty, UploadTooLarge, UploadNoName,
                  UploadLongName, UploadExeName, UploadDotDot, UploadTxtName,
                  UploadNoHeader}

Ids == 1..(IF subCount < MaxCalls THEN subCount + 1 ELSE MaxCalls)

(* ------------------------------------------------------------------ *)
(* Repositories and storage: the writes                               *)
(* ------------------------------------------------------------------ *)

Put(f, k, v) == [x \in DOMAIN f \cup {k} |-> IF x = k THEN v ELSE f[x]]

Drop(f, k) == [x \in DOMAIN f \ {k} |-> f[x]]

\* A variant of the lookup by email that matches no row.
UserByEmailNone(email) == {}

UserByEmail(email) == {u \in 1..Len(users) : users[u].email = email}

\* Variants of updateStatus the properties below must tell from the code's: one
\* that writes the status alone, and one that writes an undefined path as null.
updateStatusOnly(row, status, generatedPdfPath) == [row EXCEPT !.status = status]

updateStatusNullPath(row, status, generatedPdfPath) ==
    [row EXCEPT !.status = status, !.generatedPdfPath = generatedPdfPath]

\* SubmissionRepository.updateStatus: prisma.submission.update with
\* data {status, generatedPdfPath}; a key that is undefined is not written
updateStatus(row, status, generatedPdfPath) ==
    [row EXCEPT !.status = status,
                !.generatedPdfPath =
                    IF generatedPdfPath = NoPath THEN @ ELSE generatedPdfPath]

\* Variants of update: one that writes nothing, and one that resets the status.
updateNothing(row, status) == row

updateReset(row, status) == [row EXCEPT !.status = PENDING]

\* SubmissionRepository.update with data {status}
update(row, status) == [row EXCEPT !.status = status]

\* A variant of create whose row references no user.
NewSubmissionOfNoUser(userId, jobDescription, status, uploadedFileName, uploadedFilePath) ==
    [userId |-> 0, jobDescription |-> jobDescription, status |-> status,
     generatedPdfPath |-> NoPath,
     uploadedFileName |-> uploadedFileName, uploadedFilePath |-> uploadedFilePath]

\* SubmissionRepository.create: the row prisma.submission.create inserts
NewSubmission(userId, jobDescription, status, uploadedFileName, uploadedFilePath) ==
    [userId |-> userId, jobDescription |-> jobDescription,
     status |-> IF status = "" THEN "pending" ELSE status,
     generatedPdfPath |-> NoPath,
     uploadedFileName |-> uploadedFileName, uploadedFilePath |-> uploadedFilePath]

\* A line of the document: a label and the text next to it.
Line(label, value) == [label |-> label, value |-> value]

\* (file.fileSize / (1024 * 1024)).toFixed(1) MB, as the number of tenths
MegaBytes(fileSize) == <<Run("/10 MB", (fileSize * 10 + 524288) \div 1048576)>>

\* The lines of one uploaded file: its name, its size when file.fileSize is
\* there (and not 0), and its status.
FileLines(file) ==
    <<Line("File Name:", file.originalName)>>
    \o (IF Has(file, "fileSize") /\ file.fileSize # 0
        THEN <<Line("File Size:", MegaBytes(file.fileSize))>>
        ELSE <<>>)
    \o <<Line("Status:", Str(<<"Successfully Uploaded">>))>>

RECURSIVE AllFileLines(_)
AllFileLines(uploadedFiles) ==
    IF uploadedFiles = <<>> THEN <<>>
    ELSE FileLines(Head(uploadedFiles)) \o AllFileLines(Tail(uploadedFiles))

\* A variant of the section that is left out when the file's size is unknown.
ResumeSectionOfSized(uploadedFiles) ==
    IF Len(uploadedFiles) > 0 /\ Has(uploadedFiles[1], "fileSize")
    THEN <<Line("RESUME", <<>>)>> \o AllFileLines(uploadedFiles)
    ELSE <<>>

\* ApplicationPdfDocument, the RESUME section: present when uploadedFiles is
\* not empty
ResumeSection(uploadedFiles) ==
    IF Len(uploadedFiles) > 0
    THEN <<Line("RESUME", <<>>)>> \o AllFileLines(uploadedFiles)
    ELSE <<>>

\* pdfGeneratorService.generateApplicationPdf: the document rendered from the
\* submission, its user and the descriptors of the uploaded files
generateApplicationPdf(id, submission, userId, uploadedFiles) ==
    [header |-> "%PDF", length |-> 1 + StrLen(submission.jobDescription),
     content |-> <<"render", id, userId, submission.jobDescription,
                   ResumeSection(uploadedFiles)>>]

\* `application_${submission.id}_${Date.now()}.pdf`
PdfFileName == Str(<<"a", ".", "p", "d", "f">>)

Init ==
    /\ users = <<>>
    /\ submissions = <<>>
    /\ files = <<>>
    /\ calls = [p \in Procs |-> IdleCall]
    /\ subCount = 0
    /\ fileCount = 0
    /\ started = 0
    /\ response = [op |-> "none", outcome |-> "none", sid |-> 0,
                   form |-> <<>>, upload |-> <<>>,
                   error |-> "", result |-> NoResult]

(* ------------------------------------------------------------------ *)
(* ApplicationService.processApplication                              *)
(* ------------------------------------------------------------------ *)

\* A variant of the validation step that lets every form through as it came.
ValidationSkipped ==
    [formData \in Forms |->
        [isValid |-> TRUE, errors |-> <<>>, sanitizedData |-> formData]]

\* validateAndSanitizeFormData of each form the callers submit, as a table
ValidationOf == [formData \in Forms |-> validateAndSanitizeFormData(formData)]

\* The validation of a form: from the table for the forms of Forms
Validation(formData) ==
    IF formData \in Forms THEN ValidationOf[formData]
    ELSE validateAndSanitizeFormData(formData)

CanStart(p) == calls[p].pc = "idle" /\ started < MaxCalls

AfterUser(c) == IF c.upload # <<>> THEN "saveFile" ELSE "createSubmission"

\* Lines 13-33: validation of the form and of the upload, then
\* userRepository.findByEmail of findOrCreateUser.
ProcessCall(p, formData, validation, uploadedFile, dbFails) ==
    LET data == validation.sanitizedData
        c == [IdleCall EXCEPT !.op = "process", !.form = formData,
                              !.upload = uploadedFile]
        found == IF Has(data, "email") THEN UserByEmail(data.email) ELSE {}
    IN  Set(p,
            IF ~validation.isValid THEN Throw(c, "Validation failed")
            ELSE IF uploadedFile # <<>>
                    /\ ~validateFileUpload(
                           [name |-> uploadedFile[1].originalName,
                            size |-> uploadedFile[1].size,
                            type |-> uploadedFile[1].mimeType]).isValid
                 THEN Throw(c, "File validation failed")
            ELSE IF dbFails \/ ~Has(data, "email")
                 THEN Throw(c, "Failed to find user by email")
            ELSE IF found # {}
                 THEN [c EXCEPT !.userId = CHOOSE u \in found : TRUE,
                                !.pc = AfterUser(c)]
            ELSE [c EXCEPT !.pc = "createUser"])

\* processApplication called with a form of Forms and an upload of uploads
ProcessBegin(p, uploads) ==
    /\ CanStart(p)
    /\ \E formData \in Forms, uploadedFile \in uploads, dbFails \in BOOLEAN :
          ProcessCall(p, formData, ValidationOf[formData], uploadedFile, dbFails)
    /\ started' = started + 1
    /\ UNCHANGED <<users, submissions, files, subCount, fileCount>>

\* processApplication called with one of Uploads, and with one of UploadCases
processApplication(p) == ProcessBegin(p, Uploads)

processApplicationOfUpload(p) == ProcessBegin(p, UploadCases)

\* findOrCreateUser, lines 156-161: userRepository.create
UserCreate(p) ==
    /\ calls[p].pc = "createUser"
    /\ \E dbFails \in BOOLEAN :
          LET c == calls[p]
              data == Validation(c.form).sanitizedData
          IN  IF UserByEmail(data.email) # {}
              THEN /\ Set(p,
                          Throw(c, "A user with this email already exists"))
                   /\ UNCHANGED users
              ELSE IF dbFails \/ ~Has(data, "firstName") \/ ~Has(data, "lastName")
              THEN /\ Set(p, Throw(c, "Failed to create user"))
                   /\ UNCHANGED users
              ELSE /\ users' = Append(users,
                          [firstName |-> data.firstName, lastName |-> data.lastName,
                           email |-> data.email,
                           phone |-> IF Has(data, "phone") THEN data.phone ELSE <<>>])
                   /\ Set(p,
                          [c EXCEPT !.userId = Len(users) + 1, !.pc = AfterUser(c)])
    /\ UNCHANGED <<submissions, files, subCount, fileCount, started>>

\* What fileStorageService.saveFile does with the bytes: "ok", or an I/O error
\* before anything is written, or one after the file is written (fs.stat, or
\* the size comparison).
SaveOutcomes == {"ok", "failsBeforeWrite", "failsAfterWrite"}

\* ApplicationService.saveFile: the upload goes to scope 'temp'
SaveUpload(p) ==
    /\ calls[p].pc = "saveFile"
    /\ \E outcome \in SaveOutcomes :
          LET c == calls[p]
              file == c.upload[1]
              rejected == validateFile(file.buffer, file.mimeType, file.originalName)
              relativePath == StoragePath(TempScope, fileCount + 1, file.originalName)
          IN  IF rejected # ""
              THEN /\ Set(p, Throw(c, "Failed to save file"))
                   /\ UNCHANGED <<files, fileCount>>
              ELSE /\ fileCount' = IF outcome = "failsBeforeWrite" THEN fileCount
                                   ELSE fileCount + 1
                   /\ files' = IF outcome = "failsBeforeWrite" THEN files
                               ELSE Put(files, relativePath, file.buffer)
                   /\ Set(p,
                          IF outcome = "ok"
                          THEN [c EXCEPT !.filePath = relativePath,
                                         !.pc = "createSubmission"]
                          ELSE Throw(c, "Failed to save file"))
    /\ UNCHANGED <<users, submissions, subCount, started>>

\* Lines 36-42: submissionRepository.create
SubmissionCreate(p) ==
    /\ calls[p].pc = "createSubmission"
    /\ \E dbFails \in BOOLEAN :
          LET c == calls[p]
              row == NewSubmission(c.userId, c.form.jobDescription, PENDING,
                                   IF c.upload # <<>> THEN c.upload[1].originalName
                                   ELSE <<>>,
                                   c.filePath)
          IN  IF dbFails \/ ~Has(c.form, "jobDescription")
              THEN /\ Set(p,
                          Throw(c, "Failed to create submission"))
                   /\ UNCHANGED <<submissions, subCount>>
              ELSE /\ subCount' = subCount + 1
                   /\ submissions' = Put(submissions, subCount + 1, row)
                   /\ Set(p,
                          [c EXCEPT !.sid = subCount + 1, !.sub = row,
                                    !.form = <<>>, !.upload = <<>>,
                                    !.pc = "render"])
    /\ UNCHANGED <<users, files, fileCount, started>>

(* ------------------------------------------------------------------ *)
(* ApplicationService.generatePdf                                     *)
(* ------------------------------------------------------------------ *)

\* A variant of GenFail in which processApplication, too, catches the failure.
GenFailCaught(c, msg) == [c EXCEPT !.pc = "catch", !.caught = msg]

\* A failure inside generatePdf: processApplication lets it propagate,
\* reprocessSubmission catches it (line 118).
GenFail(c, msg) ==
    IF c.op = "process" THEN Throw(c, msg)
    ELSE [c EXCEPT !.pc = "catch", !.caught = msg]

\* Lines 176-194: the descriptors of the uploaded files
UploadedFiles(submission, filePath, metadataFails) ==
    IF filePath # NoPath /\ submission.uploadedFileName # <<>>
    THEN IF metadataFails \/ filePath \notin DOMAIN files
         THEN <<[originalName |-> submission.uploadedFileName, filePath |-> filePath]>>
         ELSE <<[originalName |-> submission.uploadedFileName, filePath |-> filePath,
                 fileSize |-> files[filePath].length]>>
    ELSE <<>>

\* Lines 176-205: getFileMetadata, then the render
GenRender(p) ==
    /\ calls[p].pc = "render"
    /\ \E metadataFails \in BOOLEAN, renderFails \in BOOLEAN :
          LET c == calls[p]
              uploadedFiles == UploadedFiles(c.sub, c.filePath, metadataFails)
          IN  Set(p,
                  IF renderFails THEN GenFail(c, "Failed to generate PDF")
                  ELSE [c EXCEPT !.pdfBuffer =
                                     generateApplicationPdf(c.sid, c.sub, c.userId,
                                                            uploadedFiles),
                                 !.pc = "savePdf"])
    /\ UNCHANGED <<users, submissions, files, subCount, fileCount, started>>

\* Lines 207-216: fileStorageService.saveFile of the rendered bytes, under the
\* submission's id
GenSave(p) ==
    /\ calls[p].pc = "savePdf"
    /\ \E outcome \in SaveOutcomes :
          LET c == calls[p]
              rejected == validateFile(c.pdfBuffer, "application/pdf", PdfFileName)
              relativePath == StoragePath(c.sid, fileCount + 1, PdfFileName)
          IN  IF rejected # ""
              THEN /\ Set(p, GenFail(c, "Failed to save file"))
                   /\ UNCHANGED <<files, fileCount>>
              ELSE /\ fileCount' = IF outcome = "failsBeforeWrite" THEN fileCount
                                   ELSE fileCount + 1
                   /\ files' = IF outcome = "failsBeforeWrite" THEN files
                               ELSE Put(files, relativePath, c.pdfBuffer)
                   /\ Set(p,
                          IF outcome = "ok"
                          THEN [c EXCEPT !.pdfPath = relativePath,
                                         !.pc = "updateCompleted"]
                          ELSE GenFail(c, "Failed to save file"))
    /\ UNCHANGED <<users, submissions, subCount, started>>

\* A variant of the response that reports the status the row was created with.
SubmissionResponseAsCreated(id) ==
    [NoResult EXCEPT !.success = TRUE, !.submissionId = id,
                     !.pdfDownloadUrl = <<"/api/submissions/", id, "/download">>,
                     !.status = PENDING]

\* Lines 48-53 and 112-117: the response of a successful call
SubmissionResponse(id) ==
    [NoResult EXCEPT !.success = TRUE, !.submissionId = id,
                     !.pdfDownloadUrl = DownloadUrl(id), !.status = COMPLETED]

\* A variant of Completed in which the download, too, returns the response of
\* the reprocess run instead of reading the stored file.
CompletedReturn(c) == Return(c, SubmissionResponse(c.sid))

\* The end of a successful render: processApplication and reprocessSubmission
\* return the response, downloadSubmissionPdf goes on to read the file.
Completed(c) ==
    IF c.op = "download" THEN [c EXCEPT !.pc = "refetch"]
    ELSE Return(c, SubmissionResponse(c.sid))

\* A failure of the COMPLETED write
CompleteFail(c, msg) ==
    IF c.op = "process" THEN Throw(c, msg)
    ELSE [c EXCEPT !.pc = "catch", !.caught = msg]

\* processApplication line 46 and reprocessSubmission line 110:
\* submissionRepository.updateStatus(id, COMPLETED, pdfPath)
UpdateCompleted(p) ==
    /\ calls[p].pc = "updateCompleted"
    /\ \E dbFails \in BOOLEAN :
          LET c == calls[p]
          IN  IF c.sid \notin DOMAIN submissions
              THEN /\ Set(p,
                          CompleteFail(c, "Submission not found"))
                   /\ UNCHANGED submissions
              ELSE IF dbFails
              THEN /\ Set(p,
                          CompleteFail(c, "Failed to update submission status"))
                   /\ UNCHANGED submissions
              ELSE /\ submissions' = [submissions EXCEPT ![c.sid] =
                          updateStatus(@, COMPLETED, c.pdfPath)]
                   /\ Set(p, Completed(c))
    /\ UNCHANGED <<users, files, subCount, fileCount, started>>

(* ------------------------------------------------------------------ *)
(* ApplicationService.reprocessSubmission                             *)
(* ------------------------------------------------------------------ *)

\* A variant in which no submission comes with its user.
HasUserNever(row) == FALSE

\* submission.user, the joined user row, is there
HasUser(row) == row.userId \in 1..Len(users)

\* Lines 92-100: submissionRepository.findById, then userRepository.findById
ReprocessFind(c, dbFails, userDbFails) ==
    IF dbFails THEN Throw(c, "Failed to find submission")
    ELSE IF c.sid \notin DOMAIN submissions THEN Throw(c, "Submission not found")
    ELSE IF userDbFails THEN Throw(c, "Failed to find user")
    ELSE IF ~HasUser(submissions[c.sid]) THEN Throw(c, "User not found")
    ELSE [c EXCEPT !.sub = submissions[c.sid],
                   !.userId = submissions[c.sid].userId,
                   !.filePath = submissions[c.sid].uploadedFilePath,
                   !.pc = "updateProcessing"]

reprocessSubmission(p) ==
    /\ CanStart(p)
    /\ \E submissionId \in Ids, dbFails \in BOOLEAN, userDbFails \in BOOLEAN :
          Set(p,
              ReprocessFind([IdleCall EXCEPT !.op = "reprocess", !.sid = submissionId],
                            dbFails, userDbFails))
    /\ started' = started + 1
    /\ UNCHANGED <<users, submissions, files, subCount, fileCount>>

\* Line 103: submissionRepository.update(id, {status: PROCESSING}), outside
\* the try block
UpdateProcessing(p) ==
    /\ calls[p].pc = "updateProcessing"
    /\ \E dbFails \in BOOLEAN :
          LET c == calls[p]
          IN  IF c.sid \notin DOMAIN submissions
              THEN /\ Set(p, Throw(c, "Submission not found"))
                   /\ UNCHANGED submissions
              ELSE IF dbFails
              THEN /\ Set(p,
                          Throw(c, "Failed to update submission"))
                   /\ UNCHANGED submissions
              ELSE /\ submissions' = [submissions EXCEPT ![c.sid] =
                          update(@, PROCESSING)]
                   /\ Set(p, [c EXCEPT !.pc = "render"])
    /\ UNCHANGED <<users, files, subCount, fileCount, started>>

\* Lines 118-122: the catch block writes FAILED, with no path, and rethrows;
\* an error of that write leaves the catch block in place of the caught one.
UpdateFailed(p) ==
    /\ calls[p].pc = "catch"
    /\ \E dbFails \in BOOLEAN :
          LET c == calls[p]
          IN  IF c.sid \notin DOMAIN submissions
              THEN /\ Set(p, Throw(c, "Submission not found"))
                   /\ UNCHANGED submissions
              ELSE IF dbFails
              THEN /\ Set(p,
                          Throw(c, "Failed to update submission status"))
                   /\ UNCHANGED submissions
              ELSE /\ submissions' = [submissions EXCEPT ![c.sid] =
                          updateStatus(@, FAILED, NoPath)]
                   /\ Set(p, Throw(c, c.caught))
    /\ UNCHANGED <<users, files, subCount, fileCount, started>>

(* ------------------------------------------------------------------ *)
(* ApplicationService.downloadSubmissionPdf                           *)
(* ------------------------------------------------------------------ *)

\* Lines 61-69 and 83: findById, then the choice between regenerating and
\* reading the stored PDF
downloadSubmissionPdf(p) ==
    /\ CanStart(p)
    /\ \E submissionId \in Ids, dbFails \in BOOLEAN :
          LET c == [IdleCall EXCEPT !.op = "download", !.sid = submissionId]
          IN  Set(p,
                  IF dbFails THEN Throw(c, "Failed to find submission")
                  ELSE IF submissionId \notin DOMAIN submissions
                       THEN Throw(c, "Submission not found")
                  ELSE IF submissions[submissionId].generatedPdfPath = NoPath
                          \/ ~HasUser(submissions[submissionId])
                       THEN [c EXCEPT !.pc = "reprocessFind"]
                  ELSE [c EXCEPT !.pdfPath = submissions[submissionId].generatedPdfPath,
                                 !.pc = "getFile"])
    /\ started' = started + 1
    /\ UNCHANGED <<users, submissions, files, subCount, fileCount>>

\* Line 69: the reprocessSubmission the download runs begins with its own reads
DownloadReprocess(p) ==
    /\ calls[p].pc = "reprocessFind"
    /\ \E dbFails \in BOOLEAN, userDbFails \in BOOLEAN :
          Set(p, ReprocessFind(calls[p], dbFails, userDbFails))
    /\ UNCHANGED <<users, submissions, files, subCount, fileCount, started>>

\* Lines 71-74: the submission is read again for its new path
DownloadRefetch(p) ==
    /\ calls[p].pc = "refetch"
    /\ \E dbFails \in BOOLEAN :
          LET c == calls[p]
          IN  Set(p,
                  IF dbFails THEN Throw(c, "Failed to find submission")
                  ELSE IF c.sid \notin DOMAIN submissions
                          \/ submissions[c.sid].generatedPdfPath = NoPath
                       THEN Throw(c, "Failed to generate PDF")
                  ELSE [c EXCEPT !.pdfPath = submissions[c.sid].generatedPdfPath,
                                 !.pc = "getFile"])
    /\ UNCHANGED <<users, submissions, files, subCount, fileCount, started>>

\* Lines 75-80 and 83-88: fileStorageService.getFile
DownloadGetFile(p) ==
    /\ calls[p].pc = "getFile"
    /\ \E ioFails \in BOOLEAN :
          LET c == calls[p]
          IN  Set(p,
                  IF c.pdfPath \notin DOMAIN files THEN Throw(c, "File not found")
                  ELSE IF ioFails THEN Throw(c, "Failed to read file")
                  ELSE Return(c, [NoResult EXCEPT !.success = TRUE,
                                                  !.submissionId = c.sid,
                                                  !.buffer = files[c.pdfPath],
                                                  !.mimeType = "application/pdf"]))
    /\ UNCHANGED <<users, submissions, files, subCount, fileCount, started>>

(* ------------------------------------------------------------------ *)
(* ApplicationService.deleteSubmission                                *)
(* ------------------------------------------------------------------ *)

AfterFind(row) ==
    IF row.uploadedFilePath # NoPath THEN "deleteUpload"
    ELSE IF row.generatedPdfPath # NoPath THEN "deletePdf"
    ELSE "deleteRow"

\* Lines 126-129
deleteSubmission(p) ==
    /\ CanStart(p)
    /\ \E submissionId \in Ids, dbFails \in BOOLEAN :
          LET c == [IdleCall EXCEPT !.op = "delete", !.sid = submissionId]
          IN  Set(p,
                  IF dbFails THEN Throw(c, "Failed to find submission")
                  ELSE IF submissionId \notin DOMAIN submissions
                       THEN Throw(c, "Submission not found")
                  ELSE [c EXCEPT !.sub = submissions[submissionId],
                                 !.pc = AfterFind(submissions[submissionId])])
    /\ started' = started + 1
    /\ UNCHANGED <<users, submissions, files, subCount, fileCount>>

\* fileStorageService.deleteFile: a missing file is no error; any other error
\* is thrown, and the service only logs it
deleteFile(filePath, ioFails) ==
    IF ioFails \/ filePath \notin DOMAIN files THEN files ELSE Drop(files, filePath)

\* A variant of DeleteUpload without the try/catch: the failure propagates.
DeleteUploadStrict(p) ==
    /\ calls[p].pc = "deleteUpload"
    /\ \E ioFails \in BOOLEAN :
          /\ files' = deleteFile(calls[p].sub.uploadedFilePath, ioFails)
          /\ Set(p, IF ioFails THEN Throw(calls[p], "Failed to delete file")
                    ELSE [calls[p] EXCEPT !.pc =
                             IF calls[p].sub.generatedPdfPath # NoPath THEN "deletePdf"
                             ELSE "deleteRow"])
    /\ UNCHANGED <<users, submissions, subCount, fileCount, started>>

\* Lines 132-138
DeleteUpload(p) ==
    /\ calls[p].pc = "deleteUpload"
    /\ \E ioFails \in BOOLEAN :
          /\ files' = deleteFile(calls[p].sub.uploadedFilePath, ioFails)
          /\ Set(p, [calls[p] EXCEPT !.pc =
                 IF calls[p].sub.generatedPdfPath # NoPath THEN "deletePdf"
                 ELSE "deleteRow"])
    /\ UNCHANGED <<users, submissions, subCount, fileCount, started>>

\* Lines 140-146
DeletePdf(p) ==
    /\ calls[p].pc = "deletePdf"
    /\ \E ioFails \in BOOLEAN :
          /\ files' = deleteFile(calls[p].sub.generatedPdfPath, ioFails)
          /\ Set(p, [calls[p] EXCEPT !.pc = "deleteRow"])
    /\ UNCHANGED <<users, submissions, subCount, fileCount, started>>

\* Line 149: submissionRepository.delete
DeleteRow(p) ==
    /\ calls[p].pc = "deleteRow"
    /\ \E dbFails \in BOOLEAN :
          LET c == calls[p]
          IN  IF c.sid \notin DOMAIN submissions
              THEN /\ Set(p, Throw(c, "Submission not found"))
                   /\ UNCHANGED submissions
              ELSE IF dbFails
              THEN /\ Set(p,
                          Throw(c, "Failed to delete submission"))
                   /\ UNCHANGED submissions
              ELSE /\ submissions' = Drop(submissions, c.sid)
                   /\ Set(p, Return(c, NoResult))
    /\ UNCHANGED <<users, files, subCount, fileCount, started>>

(* ------------------------------------------------------------------ *)
(* Specifications                                                     *)
(* ------------------------------------------------------------------ *)

\* A caller calls the service.
Begin(p) ==
    \/ processApplication(p)
    \/ reprocessSubmission(p)
    \/ downloadSubmissionPdf(p)
    \/ deleteSubmission(p)

\* A call in flight resumes after an await.
Resume(p) ==
    \/ UserCreate(p)
    \/ SaveUpload(p)
    \/ SubmissionCreate(p)
    \/ GenRender(p)
    \/ GenSave(p)
    \/ UpdateCompleted(p)
    \/ UpdateProcessing(p)
    \/ UpdateFailed(p)
    \/ DownloadReprocess(p)
    \/ DownloadRefetch(p)
    \/ DownloadGetFile(p)
    \/ DeleteUpload(p)
    \/ DeletePdf(p)
    \/ DeleteRow(p)

\* Calls interleave at their awaits.
Next == \E p \in Procs : Begin(p) \/ Resume(p)

Spec == Init /\ [][Next]_vars

\* One caller: a call begins when the one before it has ended.
NextSeq == \E p \in {1} : Begin(p) \/ Resume(p)

SpecSeq == Init /\ [][NextSeq]_vars

\* One caller, whose processApplication calls bring any of UploadCases.
NextUpload ==
    \E p \in {1} :
        \/ processApplicationOfUpload(p)
        \/ reprocessSubmission(p)
        \/ downloadSubmissionPdf(p)
        \/ deleteSubmission(p)
        \/ Resume(p)

SpecUpload == Init /\ [][NextUpload]_vars

(* ------------------------------------------------------------------ *)
(* The HTTP routes                                                    *)
(* ------------------------------------------------------------------ *)

\* A field that FormData.get found absent: null, which is no string.
Null == <<Run("null", 0)>>

SchemaNameChars == Letters \cup WhiteSpace

\* z.string().min(2).max(50).regex(/^[a-zA-Z\s]+$/)
SchemaName(data, f) ==
    /\ Has(data, f)
    /\ data[f] # Null
    /\ StrLen(data[f]) >= 2
    /\ StrLen(data[f]) <= 50
    /\ AllIn(data[f], SchemaNameChars)

\* z.string().email().max(100): the address as it came, not trimmed
SchemaEmail(data) ==
    /\ Has(data, "email")
    /\ data.email # Null
    /\ data.email = Norm(trim(data.email))
    /\ isValidEmail(data.email)
    /\ StrLen(data.email) <= 100

\* z.string().optional().refine(!val || /^[\+]?[1-9][\d]{0,15}$/.test(val))
SchemaPhone(data) ==
    Has(data, "phone") =>
        /\ data.phone # Null
        /\ \/ data.phone = <<>>
           \/ LET t == Norm(data.phone)
                  body == IF t[1][1] = "+" THEN Tail(t) ELSE t
              IN  /\ (t[1][1] = "+" => t[1][2] = 1)
                  /\ body # <<>>
                  /\ body[1][1] \in NonZeroDigits
                  /\ AllIn(body, Digits)
                  /\ StrLen(body) <= 16

\* z.string().min(50).max(2000).refine(val.trim().length > 0)
SchemaJobDescription(data) ==
    /\ Has(data, "jobDescription")
    /\ data.jobDescription # Null
    /\ StrLen(data.jobDescription) >= 50
    /\ StrLen(data.jobDescription) <= 2000
    /\ StrLen(trim(data.jobDescription)) > 0

\* applicationFormSchema.safeParse(data).success
applicationFormSchema(data) ==
    /\ SchemaName(data, "firstName")
    /\ SchemaName(data, "lastName")
    /\ SchemaEmail(data)
    /\ SchemaPhone(data)
    /\ SchemaJobDescription(data)

FormFields == {"firstName", "lastName", "email", "phone", "jobDescription"}

\* handleFormData reads the five fields with formData.get, which gives null
\* for a field the request lacks; handleJsonData parses the body as it is.
ApplicationData(body, multipart) ==
    IF multipart
    THEN [f \in FormFields |-> IF Has(body, f) THEN body[f] ELSE Null]
    ELSE body

\* Five words in 54 characters, and three words in 62.
FiveLongWords ==
    <<Run("a", 10), Run(" ", 1), Run("b", 10), Run(" ", 1), Run("a", 10), Run(" ", 1),
      Run("b", 10), Run(" ", 1), Run("a", 10)>>
ThreeLongWords == <<Run("a", 20), Run(" ", 1), Run("b", 20), Run(" ", 1), Run("a", 20)>>

BodyAda ==
    [firstName |-> <<Run("a", 3)>>, lastName |-> <<Run("b", 8)>>, email |-> EmailAda,
     phone |-> <<>>, jobDescription |-> FiveLongWords]
BodyThreeLongWords ==
    [firstName |-> <<Run("a", 3)>>, lastName |-> <<Run("b", 8)>>, email |-> EmailAda,
     phone |-> <<>>, jobDescription |-> ThreeLongWords]
BodyNoPhone ==
    [firstName |-> <<Run("a", 3)>>, lastName |-> <<Run("b", 8)>>, email |-> EmailAda,
     jobDescription |-> FiveLongWords]

\* The request bodies: a complete one, one whose job description has three
\* words in over 50 characters, one without the optional phone, one whose job
\* description has three words in 20 characters, one without the first name.
Bodies == {BodyAda, BodyThreeLongWords, BodyNoPhone, FormThreeWords, FormNoFirstName}

\* The cuid of the submission the model numbers n, and an id that is no cuid.
Cuid(n) == <<Run("c", 1), Run("a", 24 - n), Run("b", n)>>
NoCuid == <<Run("1", 1)>>

CuidChars == LowerLetters \cup Digits \cup {"c"}

\* /^c[a-z0-9]{24}$/.test(uuid)
isValidUUID(uuid) ==
    /\ uuid # <<>>
    /\ uuid[1][1] = "c"
    /\ AllIn(uuid, CuidChars)
    /\ StrLen(uuid) = 25

\* The route answers 400 itself; the service is not called.
Refuse(op, body, msg) ==
    /\ response' = [op |-> op, outcome |-> "refused", sid |-> 0, form |-> body,
                    upload |-> <<>>, error |-> msg, result |-> NoResult]
    /\ UNCHANGED calls

\* POST /api/submissions: handleFormData for a multipart request, handleJsonData
\* otherwise (which passes no file on).
PostSubmissions(p) ==
    /\ CanStart(p)
    /\ \E body \in Bodies, multipart \in BOOLEAN, file \in Uploads, dbFails \in BOOLEAN :
          LET applicationData == ApplicationData(body, multipart)
          IN  /\ ~multipart => file = <<>>
              /\ IF ~applicationFormSchema(applicationData)
                 THEN /\ file = <<>>
                      /\ ~dbFails
                      /\ Refuse("process", applicationData, "Invalid form data")
                 ELSE ProcessCall(p, applicationData, Validation(applicationData),
                                  file, dbFails)
    /\ started' = started + 1
    /\ UNCHANGED <<users, submissions, files, subCount, fileCount>>

\* Lines 20-29 of each [id] route: the id is checked with isValidUUID, then
\* handed to the service.
RefuseId(p, op) ==
    /\ CanStart(p)
    /\ \E id \in {NoCuid} :
          /\ ~isValidUUID(id)
          /\ Refuse(op, <<>>, "Invalid submission ID format")
    /\ started' = started + 1
    /\ UNCHANGED <<users, submissions, files, subCount, fileCount>>

\* POST /api/submissions/[id]/reprocess
PostReprocess(p) ==
    \/ RefuseId(p, "reprocess")
    \/ /\ \A submissionId \in Ids : isValidUUID(Cuid(submissionId))
       /\ reprocessSubmission(p)

\* GET /api/submissions/[id]/download
GetDownload(p) ==
    \/ RefuseId(p, "download")
    \/ /\ \A submissionId \in Ids : isValidUUID(Cuid(submissionId))
       /\ downloadSubmissionPdf(p)

\* DELETE /api/submissions/[id]
DeleteSubmission(p) ==
    \/ RefuseId(p, "delete")
    \/ /\ \A submissionId \in Ids : isValidUUID(Cuid(submissionId))
       /\ deleteSubmission(p)

\* The class of the error a call of the service throws: the service, the
\* repositories and the storage throw `new Error(...)` and nothing else.
ErrorClass(error) == "Error"

\* The catch block of a route: POST /api/submissions answers 500 for whatever
\* is thrown; the [id] routes test the class of the error.
StatusOfError(op, class) ==
    IF op = "process" THEN 500
    ELSE IF class = "ValidationError" THEN 400
    ELSE IF class = "NotFoundError" THEN 404
    ELSE 500

\* The status of the HTTP response to the request that ended last.
HttpStatus(r) ==
    CASE r.outcome = "refused" -> 400
      [] r.outcome = "done" -> IF r.op = "process" THEN 201 ELSE 200
      [] r.outcome = "failed" -> StatusOfError(r.op, ErrorClass(r.error))
      [] OTHER -> 0

\* One client, one request at a time.
NextRoute ==
    \E p \in {1} :
        \/ PostSubmissions(p)
        \/ PostReprocess(p)
        \/ GetDownload(p)
        \/ DeleteSubmission(p)
        \/ Resume(p)

SpecRoute == Init /\ [][NextRoute]_vars

(* ------------------------------------------------------------------ *)
(* FileStorageService on a directory tree                             *)
(* ------------------------------------------------------------------ *)

\* Here a name is the sequence of its characters and a path the sequence of
\* its segments, the segments that '/' separates in the string; an absolute
\* path begins with Root. The tree maps the absolute path of every file and
\* directory to its bytes or to Directory.
Root == <<"/">>
Up == <<".", ".">>
UploadsDir == <<"u", "p", "l", "o", "a", "d", "s">>
GeneratedDir == <<"g", "e", "n", "e", "r", "a", "t", "e", "d">>
TempDir == <<"t", "e", "m", "p">>

\* path.join(process.cwd(), 'storage'), in the working directory /app
BaseUploadDir == <<Root, <<"a", "p", "p">>, <<"s", "t", "o", "r", "a", "g", "e">>>>

Directory == [header |-> "", length |-> 0, content |-> <<"directory">>]

\* The segments left of a path: '' and '.' dropped, as is the '/' that begins
\* a later part, '..' taking the segment before it away; above the root '..'
\* is dropped, and at the start of a relative path it is kept.
RECURSIVE NormalSegments(_, _)
NormalSegments(segs, acc) ==
    IF segs = <<>> THEN acc
    ELSE LET seg == Head(segs)
         IN  NormalSegments(Tail(segs),
                 IF seg = <<>> \/ seg = <<".">> \/ (seg = Root /\ acc # <<>>) THEN acc
                 ELSE IF seg = Up
                      THEN IF acc = <<Root>> THEN acc
                           ELSE IF acc # <<>> /\ acc[Len(acc)] # Up
                                THEN SubSeq(acc, 1, Len(acc) - 1)
                                ELSE Append(acc, Up)
                      ELSE Append(acc, seg))

\* path.normalize
normalize(path) == NormalSegments(path, <<>>)

\* path.join of two parts
join(a, b) == normalize(a \o b)

\* path.resolve of an absolute path
resolve(path) == normalize(path)

\* path.dirname of an absolute path
dirname(path) ==
    IF Len(normalize(path)) < 2 THEN <<Root>>
    ELSE SubSeq(normalize(path), 1, Len(normalize(path)) - 1)

\* path.basename
basename(path) == IF path = <<>> THEN <<>> ELSE path[Len(path)]

\* The string of an absolute path: '/' and the segments with '/' between them.
RECURSIVE Joined(_)
Joined(segs) ==
    IF segs = <<>> THEN <<>>
    ELSE IF Len(segs) = 1 THEN Head(segs)
    ELSE Head(segs) \o <<"/">> \o Joined(Tail(segs))

Text(path) == <<"/">> \o Joined(Tail(path))

\* String.prototype.startsWith
startsWith(s, prefix) ==
    Len(s) >= Len(prefix) /\ SubSeq(s, 1, Len(prefix)) = prefix

\* The directories above an absolute path, the root directory first.
Ancestors(path) == {SubSeq(path, 1, k) : k \in 1..(Len(path) - 1)}

\* The error code of a file system call on fullPath in the tree fs, "" for none.
Errno(fs, fullPath) ==
    IF \E a \in Ancestors(fullPath) : a \in DOMAIN fs /\ fs[a] # Directory
    THEN "ENOTDIR"
    ELSE IF fullPath \notin DOMAIN fs THEN "ENOENT"
    ELSE ""

\* fs.mkdir(dirPath, {recursive: true})
mkdir(fs, dirPath) ==
    LET made == (Ancestors(dirPath) \cup {dirPath}) \ DOMAIN fs
    IN  [q \in DOMAIN fs \cup made |-> IF q \in made THEN Directory ELSE fs[q]]

TraversalDetected == "Invalid file path: Path traversal detected"

\* path.join(this.baseUploadDir, filePath)
FullPath(filePath) == join(BaseUploadDir, filePath)

\* The security check of getFile, deleteFile and getFileMetadata
PassesSecurityCheck(filePath) ==
    startsWith(Text(resolve(FullPath(filePath))), Text(resolve(BaseUploadDir)))

\* FileStorageService.getFile on the tree fs: how the call ends, and the
\* buffer it returns
ReadFile(fs, filePath) ==
    LET fullPath == FullPath(filePath)
        errno == Errno(fs, fullPath)
        Failed(msg, cause) ==
            [outcome |-> "failed", error |-> <<msg, cause>>, value |-> <<>>]
    IN  IF ~PassesSecurityCheck(filePath)
        THEN Failed("Failed to read file", TraversalDetected)
        ELSE IF errno = "ENOENT" THEN Failed("File not found", "")
        ELSE IF errno # "" THEN Failed("Failed to read file", errno)
        ELSE IF fs[fullPath] = Directory
             THEN Failed("Failed to read file", "EISDIR")
        ELSE [outcome |-> "done", error |-> <<"", "">>, value |-> fs[fullPath]]

\* A variant of UnlinkFile that reports a missing file, as getFile does.
UnlinkFileStrict(fs, filePath) ==
    LET fullPath == FullPath(filePath)
        errno == Errno(fs, fullPath)
    IN  IF ~PassesSecurityCheck(filePath)
        THEN [files |-> fs, outcome |-> "failed",
              error |-> <<"Failed to delete file", TraversalDetected>>]
        ELSE IF errno # "" \/ fs[fullPath] = Directory
             THEN [files |-> fs, outcome |-> "failed",
                   error |-> <<"File not found", "">>]
        ELSE [files |-> Drop(fs, fullPath), outcome |-> "done",
              error |-> <<"", "">>]

\* FileStorageService.deleteFile on the tree fs: the tree it leaves, and how
\* the call ends
UnlinkFile(fs, filePath) ==
    LET fullPath == FullPath(filePath)
        errno == Errno(fs, fullPath)
        Failed(cause) ==
            [files |-> fs, outcome |-> "failed",
             error |-> <<"Failed to delete file", cause>>]
    IN  IF ~PassesSecurityCheck(filePath) THEN Failed(TraversalDetected)
        ELSE IF errno = "ENOENT"
             THEN [files |-> fs, outcome |-> "done", error |-> <<"", "">>]
        ELSE IF errno # "" THEN Failed(errno)
        ELSE IF fs[fullPath] = Directory THEN Failed("EISDIR")
        ELSE [files |-> Drop(fs, fullPath), outcome |-> "done",
              error |-> <<"", "">>]

\* FileStorageService.getFileMetadata on the tree fs
StatFile(fs, filePath) ==
    LET fullPath == FullPath(filePath)
        errno == Errno(fs, fullPath)
        Failed(msg, cause) ==
            [outcome |-> "failed", error |-> <<msg, cause>>, value |-> <<>>]
    IN  IF ~PassesSecurityCheck(filePath)
        THEN Failed("Failed to get file metadata", TraversalDetected)
        ELSE IF errno = "ENOENT" THEN Failed("File not found", "")
        ELSE IF errno # "" THEN Failed("Failed to get file metadata", errno)
        ELSE [outcome |-> "done", error |-> <<"", "">>,
              value |-> [fileName |-> basename(filePath),
                         filePath |-> fullPath,
                         fileSize |-> fs[fullPath].length,
                         isFile |-> fs[fullPath] # Directory,
                         isDirectory |-> fs[fullPath] = Directory]]

\* What a caller of the storage has after a call: the call, and how it ended.
StorageResponse(op, filePath, input, outcome, error, value) ==
    [op |-> op, filePath |-> filePath, input |-> input, outcome |-> outcome,
     error |-> error, value |-> value]

MaxFiles == 2

\* The string of the n-th uuidv4()
UuidChars == <<"1", "2", "3">>
Uuid(n) == <<"f", UuidChars[n]>>

\* A string of the validators as the sequence of its characters.
RECURSIVE Expand(_)
Expand(s) ==
    IF s = <<>> THEN <<>>
    ELSE IF s[1][2] = 0 THEN Expand(Tail(s))
    ELSE <<s[1][1]>> \o Expand(<<Run(s[1][1], s[1][2] - 1)>> \o Tail(s))

\* The arguments of saveFile: buffers of 2 MB, above the maximum size and
\* without the PDF header; names with extension .pdf, .txt and none.
SaveBuffers ==
    {UploadBuffer("%PDF", 2097152), UploadBuffer("%PDF", MaxFileSize + 1),
     UploadBuffer("JUNK", 2097152)}

SaveNames == {ResumePdf, ResumeTxt, Str(<<"a">>)}

SaveTypes == {"application/pdf", "application/exe"}

SaveScopes == {TempDir, <<"1">>}

\* The tree after initialize(): the base directory with uploads, generated
\* and temp, beside a directory whose name begins with the base directory's,
\* and a file elsewhere.
SiblingFile ==
    <<Root, <<"a", "p", "p">>, <<"s", "t", "o", "r", "a", "g", "e", "2">>, <<"a">>>>
PasswdFile == <<Root, <<"e", "t", "c">>, <<"p", "a", "s", "s", "w", "d">>>>

InitialTree ==
    LET dirs == mkdir(mkdir(mkdir(mkdir(mkdir(<<>>,
                    join(BaseUploadDir, <<UploadsDir>>)),
                    join(BaseUploadDir, <<GeneratedDir>>)),
                    join(BaseUploadDir, <<TempDir>>)),
                    dirname(SiblingFile)),
                    dirname(PasswdFile))
    IN  Put(Put(dirs, SiblingFile, UploadBuffer("%PDF", 2097152)),
            PasswdFile, UploadBuffer("root", 1024))

\* The relative paths of the files stored under the base directory.
StoredPaths(fs) ==
    {SubSeq(f, Len(BaseUploadDir) + 1, Len(f)) :
        f \in {g \in DOMAIN fs : /\ fs[g] # Directory
                                 /\ Len(g) > Len(BaseUploadDir)
                                 /\ SubSeq(g, 1, Len(BaseUploadDir)) = BaseUploadDir}}

\* The filePath arguments: the stored paths, a path below a stored file, a
\* missing file, a directory, the base directory itself, its parent, a file
\* two levels up and a file in the directory beside the base directory.
PathCases(fs) ==
    StoredPaths(fs)
    \cup {p \o <<<<"x">>>> : p \in StoredPaths(fs)}
    \cup {<<UploadsDir, TempDir, <<"m">>>>,
          <<UploadsDir>>,
          <<>>,
          <<Up>>,
          <<Up, Up, <<"e", "t", "c">>, <<"p", "a", "s", "s", "w", "d">>>>,
          <<Up, <<"s", "t", "o", "r", "a", "g", "e", "2">>, <<"a">>>>}

InitStorage ==
    /\ users = <<>>
    /\ submissions = <<>>
    /\ files = InitialTree
    /\ calls = [p \in Procs |-> IdleCall]
    /\ subCount = 0
    /\ fileCount = 0
    /\ started = 0
    /\ response = StorageResponse("none", <<>>, <<>>, "none", <<"", "">>, <<>>)

\* FileStorageService.saveFile
saveFile ==
    /\ \E file \in SaveBuffers, originalName \in SaveNames, mimeType \in SaveTypes,
          submissionId \in SaveScopes, outcome \in SaveOutcomes :
           LET rejected == validateFile(file, mimeType, originalName)
               input == [file |-> file, originalName |-> originalName,
                         mimeType |-> mimeType, submissionId |-> submissionId]
               fileName == Uuid(fileCount + 1) \o Expand(extname(originalName))
               relativePath == join(join(<<UploadsDir>>, <<submissionId>>), <<fileName>>)
               fullPath == join(BaseUploadDir, relativePath)
               dirErrno == Errno(files, dirname(fullPath))
               tree == IF dirErrno = "ENOENT" THEN mkdir(files, dirname(fullPath))
                       ELSE files
               Failed(cause) ==
                   StorageResponse("saveFile", <<>>, input, "failed",
                                   <<"Failed to save file", cause>>, <<>>)
           IN  IF rejected # ""
               THEN /\ outcome = "ok"
                    /\ response' = Failed(rejected)
                    /\ UNCHANGED <<files, fileCount>>
               ELSE /\ fileCount < MaxFiles
                    /\ fileCount' = fileCount + 1
                    /\ IF dirErrno \notin {"", "ENOENT"}
                       THEN /\ response' = Failed(dirErrno)
                            /\ files' = files
                       ELSE IF outcome = "failsBeforeWrite"
                               \/ Errno(tree, dirname(fullPath)) # ""
                               \/ tree[dirname(fullPath)] # Directory
                       THEN /\ response' = Failed("writeFile")
                            /\ files' = tree
                       ELSE /\ files' = Put(tree, fullPath, file)
                            /\ response' =
                                   IF outcome = "failsAfterWrite"
                                   THEN Failed("File size mismatch after saving")
                                   ELSE StorageResponse("saveFile", <<>>, input, "done",
                                            <<"", "">>,
                                            [fileName |-> fileName,
                                             filePath |-> relativePath,
                                             fileSize |-> file.length,
                                             success |-> TRUE])
    /\ UNCHANGED <<users, submissions, calls, subCount, started>>

\* FileStorageService.getFile
getFile ==
    /\ \E filePath \in PathCases(files) :
          LET r == ReadFile(files, filePath)
          IN  response' = StorageResponse("getFile", filePath, <<>>, r.outcome,
                                          r.error, r.value)
    /\ UNCHANGED <<users, submissions, files, calls, subCount, fileCount, started>>

\* FileStorageService.deleteFile
deleteStoredFile ==
    /\ \E filePath \in PathCases(files) :
          LET r == UnlinkFile(files, filePath)
          IN  /\ files' = r.files
              /\ response' = StorageResponse("deleteFile", filePath, <<>>,
                                             r.outcome, r.error, <<>>)
    /\ UNCHANGED <<users, submissions, calls, subCount, fileCount, started>>

\* FileStorageService.getFileMetadata
getFileMetadata ==
    /\ \E filePath \in PathCases(files) :
          LET r == StatFile(files, filePath)
          IN  response' = StorageResponse("getFileMetadata", filePath, <<>>,
                                          r.outcome, r.error, r.value)
    /\ UNCHANGED <<users, submissions, files, calls, subCount, fileCount, started>>

NextStorage == saveFile \/ getFile \/ deleteStoredFile \/ getFileMetadata

SpecStorage == InitStorage /\ [][NextStorage]_vars

(* ------------------------------------------------------------------ *)
(* Pagination: SubmissionRepository.findByUserId, validatePagination  *)
(* ------------------------------------------------------------------ *)

\* The numbers of rows the submission table is listed with.
TableSizes == {0, 3, 360}

\* Every third submission is user 2's, the others are user 1's.
TableOf(n) ==
    [id \in 1..n |->
        NewSubmission(IF id % 3 = 0 THEN 2 ELSE 1, FiveWords, PENDING, <<>>, NoPath)]

PageInputs == {-1, 0, 1, 2, 1001}
LimitInputs == {0, 1, 10, 100, 101, 500}

\* The options of a listing: page and limit, each given or left out.
PageOptions ==
    {[page |-> page, limit |-> limit] : page \in PageInputs, limit \in LimitInputs}
    \cup {[page |-> page] : page \in PageInputs}
    \cup {[limit |-> limit] : limit \in LimitInputs}
    \cup {<<>>}

\* Page and limit as they come from a query string.
TextOptions ==
    {[page |-> page, limit |-> limit] :
        page \in {Str(<<"1">>), Str(<<"0">>), Str(<<"a">>)},
        limit \in {Str(<<"1", "0", "1">>), Str(<<"1", "0", "a">>), <<>>}}

RECURSIVE DigitsValue(_, _)
DigitsValue(s, acc) ==
    IF s = <<>> \/ s[1][1] \notin Digits THEN acc
    ELSE DigitsValue(IF s[1][2] = 1 THEN Tail(s)
                     ELSE <<Run(s[1][1], s[1][2] - 1)>> \o Tail(s),
                     acc * 10 + (IF s[1][1] = "1" THEN 1 ELSE 0))

\* parseInt(s, 10): <<n>> for the number the leading digits of s spell, and
\* <<>> (NaN) when s does not begin with a digit
parseInt(s) ==
    LET t == TrimStart(s)
    IN  IF t = <<>> \/ t[1][1] \notin Digits THEN <<>> ELSE <<DigitsValue(t, 0)>>

\* `typeof v === 'string' ? parseInt(v, 10) : v`
NumberOf(v, isText) == IF isText THEN parseInt(v) ELSE <<v>>

\* The page or the limit validatePagination settles on, and its error.
ValidatedNumber(options, f, isText, default, max, invalid, tooLarge) ==
    IF ~Has(options, f) THEN [value |-> default, errors |-> <<>>]
    ELSE LET num == NumberOf(options[f], isText)
         IN  IF num = <<>> \/ num[1] < 1 THEN [value |-> default, errors |-> <<invalid>>]
             ELSE IF num[1] > max THEN [value |-> default, errors |-> <<tooLarge>>]
             ELSE [value |-> num[1], errors |-> <<>>]

PagingResponse(op, userId, options, outcome, value) ==
    [op |-> op, userId |-> userId, options |-> options, outcome |-> outcome,
     value |-> value]

InitPaging ==
    /\ users = <<>>
    /\ \E n \in TableSizes : submissions = TableOf(n) /\ subCount = n
    /\ files = <<>>
    /\ calls = [p \in Procs |-> IdleCall]
    /\ fileCount = 0
    /\ started = 0
    /\ response = PagingResponse("none", 0, <<>>, "none", <<>>)

\* The ids of the user's submissions, the newest first (ids are handed out in
\* the order of creation): orderBy {createdAt: 'desc'}.
NewestFirst(userId) ==
    SelectSeq([j \in 1..subCount |-> subCount - j + 1],
              LAMBDA id : id \in DOMAIN submissions /\ submissions[id].userId = userId)

\* prisma.submission.findMany({skip, take}) on the ordered rows; take: 0 gives
\* no row.
SkipTake(rows, skip, take) ==
    SubSeq(rows, skip + 1, IF skip + take < Len(rows) THEN skip + take ELSE Len(rows))

\* SubmissionRepository.findByUserId: page and limit go to the query as they
\* came; Prisma refuses a negative skip, and the error is wrapped.
findByUserId ==
    /\ \E userId \in {1, 2}, options \in PageOptions, dbFails \in BOOLEAN :
          LET page == IF Has(options, "page") THEN options.page ELSE 1
              limit == IF Has(options, "limit") THEN options.limit ELSE 10
              skip == (page - 1) * limit
              mine == NewestFirst(userId)
          IN  response' =
                  IF dbFails \/ skip < 0
                  THEN PagingResponse("findByUserId", userId, options, "failed",
                                      [error |-> "Failed to find submissions by user"])
                  ELSE PagingResponse("findByUserId", userId, options, "done",
                                      [skip |-> skip, take |-> limit,
                                       submissions |-> SkipTake(mine, skip, limit),
                                       total |-> Len(mine)])
    /\ UNCHANGED <<users, submissions, files, calls, subCount, fileCount, started>>

\* ValidationUtils.validatePagination
validatePagination ==
    /\ \E isText \in BOOLEAN :
          \E options \in IF isText THEN TextOptions ELSE PageOptions :
              LET page == ValidatedNumber(options, "page", isText, 1, 1000,
                                          "Page must be a positive integer",
                                          "Page number is too large")
                  limit == ValidatedNumber(options, "limit", isText, 10, 100,
                                           "Limit must be a positive integer",
                                           "Limit cannot exceed 100")
              IN  response' =
                      PagingResponse("validatePagination", 0, options, "done",
                                     [page |-> page.value, limit |-> limit.value,
                                      errors |-> page.errors \o limit.errors])
    /\ UNCHANGED <<users, submissions, files, calls, subCount, fileCount, started>>

NextPaging == findByUserId \/ validatePagination

SpecPaging == InitPaging /\ [][NextPaging]_vars

(* ------------------------------------------------------------------ *)
(* ErrorUtils.retryOperation                                          *)
(* ------------------------------------------------------------------ *)

\* `let lastError: unknown` before any attempt: undefined
NoError == [class |-> "undefined", isOperational |-> FALSE, message |-> ""]

\* What an operation throws: an AppError that is operational, one that is not,
\* plain Errors, and an Error that is no AppError but carries isOperational.
Errors ==
    {[class |-> "AppError", isOperational |-> TRUE, message |-> "conflict"],
     [class |-> "AppError", isOperational |-> FALSE, message |-> "bug"],
     [class |-> "Error", isOperational |-> FALSE, message |-> "timeout"],
     [class |-> "Error", isOperational |-> FALSE, message |-> "reset"],
     [class |-> "Error", isOperational |-> TRUE, message |-> "lookalike"]}

\* What an invocation of the operation does: it resolves with a value or
\* rejects with an error.
Resolve(value) == [throws |-> FALSE, value |-> value, error |-> NoError]
Reject(error) == [throws |-> TRUE, value |-> "", error |-> error]
Attempts == {Resolve("result")} \cup {Reject(error) : error \in Errors}

MaxRetriesInputs == {-1, 0, 1, 2, 3}
BaseDelay == 1000

\* A variant that takes no error for operational.
isOperationalErrorNever(error) == FALSE

\* ErrorUtils.isOperationalError
isOperationalError(error) ==
    IF error.class = "AppError" THEN error.isOperational ELSE FALSE

\* A variant of the catch block that keeps the first error it caught.
CaughtFirst(lastError, error) == IF lastError = NoError THEN error ELSE lastError

\* `lastError = error` of the catch block
Caught(lastError, error) == error

\* The test of the for loop: attempt <= maxRetries
LoopGoesOn(attempt, maxRetries) == attempt <= maxRetries

RECURSIVE Pow2(_)
Pow2(n) == IF n = 0 THEN 1 ELSE 2 * Pow2(n - 1)

\* A caller's call of retryOperation: where it is, the attempt it is at, the
\* outcomes of the invocations of the operation so far, and lastError.
IdleRetry ==
    [pc |-> "idle", maxRetries |-> 0, attempt |-> 0, outcomes |-> <<>>,
     lastError |-> NoError, delay |-> 0]

\* The call ends, returning value or throwing error; the caller is free again.
RetryEnds(p, c, outcome, value, error) ==
    /\ calls' = [calls EXCEPT ![p] = IdleRetry]
    /\ response' = [op |-> "retryOperation", maxRetries |-> c.maxRetries,
                    outcomes |-> c.outcomes, outcome |-> outcome,
                    value |-> value, error |-> error]

InitRetry ==
    /\ users = <<>>
    /\ submissions = <<>>
    /\ files = <<>>
    /\ calls = [p \in Procs |-> IdleRetry]
    /\ subCount = 0
    /\ fileCount = 0
    /\ started = 0
    /\ response = [op |-> "none", maxRetries |-> 0, outcomes |-> <<>>,
                   outcome |-> "none", value |-> "", error |-> NoError]

\* retryOperation(operation, maxRetries): the first test of the loop
retryOperation(p) ==
    /\ calls[p].pc = "idle"
    /\ \E maxRetries \in MaxRetriesInputs :
          LET c == [IdleRetry EXCEPT !.maxRetries = maxRetries, !.attempt = 1]
          IN  IF LoopGoesOn(1, maxRetries)
              THEN /\ calls' = [calls EXCEPT ![p] = [c EXCEPT !.pc = "attempt"]]
                   /\ UNCHANGED response
              ELSE RetryEnds(p, c, "thrown", "", c.lastError)
    /\ UNCHANGED <<users, submissions, files, subCount, fileCount, started>>

\* `return await operation()` and the catch block up to the delay
Attempt(p) ==
    /\ calls[p].pc = "attempt"
    /\ \E result \in Attempts :
          LET c == [calls[p] EXCEPT !.outcomes = Append(@, result),
                                    !.lastError = IF result.throws
                                                  THEN Caught(@, result.error)
                                                  ELSE @]
          IN  IF ~result.throws
              THEN RetryEnds(p, c, "returned", result.value, NoError)
              ELSE IF c.attempt = c.maxRetries \/ isOperationalError(result.error)
              THEN RetryEnds(p, c, "thrown", "", c.lastError)
              ELSE /\ calls' = [calls EXCEPT ![p] =
                                  [c EXCEPT !.delay = BaseDelay * Pow2(c.attempt - 1),
                                            !.pc = "delay"]]
                   /\ UNCHANGED response
    /\ UNCHANGED <<users, submissions, files, subCount, fileCount, started>>

\* The timer of the backoff fires; attempt++ and the test of the loop
Delay(p) ==
    /\ calls[p].pc = "delay"
    /\ LET c == [calls[p] EXCEPT !.attempt = @ + 1, !.delay = 0]
       IN  IF LoopGoesOn(c.attempt, c.maxRetries)
           THEN /\ calls' = [calls EXCEPT ![p] = [c EXCEPT !.pc = "attempt"]]
                /\ UNCHANGED response
           ELSE RetryEnds(p, c, "thrown", "", c.lastError)
    /\ UNCHANGED <<users, submissions, files, subCount, fileCount, started>>

\* One caller: a call begins when the one before it has ended.
NextRetry == \E p \in {1} : retryOperation(p) \/ Attempt(p) \/ Delay(p)

SpecRetry == InitRetry /\ [][NextRetry]_vars

\* The promise of an invocation settles and the timer of a delay fires.
SpecRetryFair ==
    /\ SpecRetry
    /\ WF_vars(Attempt(1))
    /\ WF_vars(Delay(1))

(* ------------------------------------------------------------------ *)
(* Properties                                                         *)
(* ------------------------------------------------------------------ *)

\* A call ends in this step (its caller is idle again, or it began and ended
\* at once): response' is what its caller got.
CallEnds ==
    \/ \E p \in Procs : calls[p].pc # "idle" /\ calls'[p].pc = "idle"
    \/ started' # started /\ calls' = calls

\* The forms validateAndSanitizeFormData rejects, and the uploads
\* validateFileUpload rejects.
InvalidForms == {formData \in Forms : ~validateAndSanitizeFormData(formData).isValid}

InvalidUploads ==
    {u \in Uploads \ {<<>>} :
        ~validateFileUpload([name |-> u[1].originalName, size |-> u[1].size,
                             type |-> u[1].mimeType]).isValid}

\* The errors of the steps of processApplication after the two validations.
StepFailures ==
    {"Failed to find user by email", "A user with this email already exists",
     "Failed to create user", "Failed to save file", "Failed to create submission",
     "Failed to generate PDF", "Submission not found",
     "Failed to update submission status"}

\* C1: a processApplication call whose form and upload pass validation either
\* fails with the error of a storage, render or database step, or returns status
\* COMPLETED with pdfDownloadUrl /api/submissions/<id>/download while the stored
\* submission <id> is COMPLETED and its generatedPdfPath names a file that exists
\* (so that a download of <id> begun now reads the stored file).
ProcessReturnsCompleted ==
    [][(CallEnds /\ response'.op = "process") =>
          \/ /\ response'.outcome = "done"
             /\ response'.result.success
             /\ response'.result.status = "completed"
             /\ response'.result.submissionId = response'.sid
             /\ response'.result.pdfDownloadUrl
                    = <<"/api/submissions/", response'.sid, "/download">>
             /\ response'.sid \in DOMAIN submissions'
             /\ submissions'[response'.sid].status = "completed"
             /\ submissions'[response'.sid].generatedPdfPath # NoPath
             /\ submissions'[response'.sid].generatedPdfPath \in DOMAIN files'
          \/ /\ response'.outcome = "failed"
             /\ \/ response'.error \in StepFailures
                \/ response'.error = "Validation failed"
                      /\ response'.form \in InvalidForms
                \/ response'.error = "File validation failed"
                      /\ response'.upload \in InvalidUploads]_vars

\* A processApplication call has returned for a submission with an upload.
ProcessReturned ==
    /\ response.op = "process"
    /\ response.outcome = "done"
    /\ response.sid \in DOMAIN submissions
    /\ submissions[response.sid].uploadedFilePath # NoPath
    /\ submissions[response.sid].status = COMPLETED

\* C2: a processApplication call whose form fails validation ends in the step
\* it begins in, with the validation error, and that step leaves the user rows,
\* the submission rows and the stored files as they were; no call with such a
\* form is ever in flight.
ValidationFailurePersistsNothing ==
    [][/\ (CallEnds /\ response'.op = "process"
              /\ response'.form \in InvalidForms) =>
             /\ response'.outcome = "failed"
             /\ response'.error = "Validation failed"
             /\ started' = started + 1
             /\ UNCHANGED <<users, submissions, files>>
       /\ \A p \in Procs : calls'[p].form \notin InvalidForms]_vars

\* A call was refused for its form while rows and files were stored.
ValidationRefused ==
    /\ response.op = "process"
    /\ response.error = "Validation failed"
    /\ response.form \in InvalidForms
    /\ Len(users) > 0
    /\ DOMAIN submissions # {}
    /\ DOMAIN files # {}

\* The fields of a form that violate their rule: a name, email or job
\* description that is absent or that its validator rejects, a phone that is
\* not blank and that its validator rejects.
RuleViolations(data) ==
    {f \in {"firstName", "lastName"} : ~Has(data, f) \/ ~isValidName(data[f])}
    \cup {f \in {"email"} : ~Has(data, f) \/ ~isValidEmail(data[f])}
    \cup {f \in {"phone"} :
             Has(data, f) /\ trim(data[f]) # <<>> /\ ~isValidPhoneNumber(data[f])}
    \cup {f \in {"jobDescription"} :
             ~Has(data, f) \/ ~isValidJobDescription(data[f])}

ViolatingForms == {formData \in Forms : RuleViolations(formData) # {}}

\* C3: a form in which a field violates its rule (an absent required field
\* counting as a violation) is refused by validateAndSanitizeFormData with an
\* error keyed by that field, so no processApplication call goes on past the
\* validation with such a form.
NoViolatingFormPassesValidation ==
    \A p \in Procs :
        calls[p].op = "process" /\ calls[p].form \in ViolatingForms =>
            /\ calls[p].pc = "idle"
            /\ RuleViolations(calls[p].form)
                   \subseteq DOMAIN validateAndSanitizeFormData(calls[p].form).errors

\* C4: a submission whose status is COMPLETED has a generatedPdfPath.
CompletedHasPdfPath ==
    \A id \in DOMAIN submissions :
        submissions[id].status = COMPLETED =>
            submissions[id].generatedPdfPath # NoPath

\* A COMPLETED submission on which a reprocess run is about to write FAILED.
CompletedWhileFailing ==
    \E p \in Procs :
        /\ calls[p].pc = "catch"
        /\ calls[p].sid \in DOMAIN submissions
        /\ submissions[calls[p].sid].status = COMPLETED

\* The transitions of the lifecycle: PENDING to COMPLETED, any status to
\* PROCESSING, PROCESSING to COMPLETED or FAILED.
LifecycleChange(from, to) ==
    \/ from = PENDING /\ to = COMPLETED
    \/ to = PROCESSING
    \/ from = PROCESSING /\ to \in {COMPLETED, FAILED}

\* The changes of status that calls on one submission make when they overlap:
\* the final write of one over the final write of the other.
OverlapChange(from, to) ==
    \/ from = COMPLETED /\ to = FAILED
    \/ from = FAILED /\ to = COMPLETED

\* The ids whose stored status changes in this step.
StatusChanged ==
    {id \in DOMAIN submissions \cap DOMAIN submissions' :
        submissions'[id].status # submissions[id].status}

\* C5 as stated: every change of a stored status is a transition of the
\* lifecycle.
OnlyLifecycleChanges ==
    [][\A id \in StatusChanged :
          LifecycleChange(submissions[id].status, submissions'[id].status)]_vars

\* C5 as amended: every change of a stored status is a transition of the
\* lifecycle or, between overlapping calls, COMPLETED to FAILED or FAILED to
\* COMPLETED; FAILED is never written over PENDING, and nothing is changed to
\* PENDING or REJECTED.
OnlyLifecycleOrOverlapChanges ==
    [][\A id \in StatusChanged :
          \/ LifecycleChange(submissions[id].status, submissions'[id].status)
          \/ OverlapChange(submissions[id].status, submissions'[id].status)]_vars

\* A FAILED submission on which another call is about to write COMPLETED.
FailedWhileCompleting ==
    \E p \in Procs :
        /\ calls[p].pc = "updateCompleted"
        /\ calls[p].sid \in DOMAIN submissions
        /\ submissions[calls[p].sid].status = FAILED

\* C6: a submission is created with status PENDING, no step changes a stored
\* status to PENDING or REJECTED, and no submission has status REJECTED.
CreatedPendingNeverBack ==
    [][/\ \A id \in DOMAIN submissions' \ DOMAIN submissions :
              submissions'[id].status = "pending"
       /\ \A id \in StatusChanged :
              submissions'[id].status \notin {"pending", "rejected"}
       /\ \A id \in DOMAIN submissions' :
              submissions'[id].status \in {"pending", "processing", "completed", "failed"}]_vars

\* A submission that left PENDING is being reprocessed.
ReprocessingAfterPending ==
    \E p \in Procs :
        /\ calls[p].pc = "render"
        /\ calls[p].op = "reprocess"
        /\ calls[p].sub.status \in {COMPLETED, FAILED}
        /\ calls[p].sid \in DOMAIN submissions
        /\ submissions[calls[p].sid].status = PROCESSING

\* The errors of the render and of the storing of the PDF.
RenderOrStoreFailures == {"Failed to generate PDF", "Failed to save file"}

\* C7: when a reprocessSubmission call in which the render or the storing of
\* the PDF failed ends, the submission is FAILED and its generatedPdfPath,
\* uploadedFilePath, uploadedFileName and jobDescription are what the call read
\* when it began.
ReprocessFailureLeavesFailed ==
    [][\A p \in Procs :
          (/\ calls[p].pc = "catch"
           /\ calls[p].caught \in RenderOrStoreFailures
           /\ calls'[p].pc = "idle") =>
              /\ calls[p].sid \in DOMAIN submissions'
              /\ LET row == submissions'[calls[p].sid]
                     before == calls[p].sub
                 IN  /\ row.status = FAILED
                     /\ row.generatedPdfPath = before.generatedPdfPath
                     /\ row.uploadedFilePath = before.uploadedFilePath
                     /\ row.uploadedFileName = before.uploadedFileName
                     /\ row.jobDescription = before.jobDescription]_vars

\* C8: the error a reprocessSubmission call throws after it set PROCESSING is
\* the error its try block caught, whatever the write of FAILED does.
ReprocessRethrowsOriginal ==
    [][\A p \in Procs :
          (calls[p].pc = "catch" /\ calls'[p].pc = "idle") =>
              /\ response'.outcome = "failed"
              /\ response'.error = calls[p].caught]_vars

\* C9: a processApplication call that leaves the render or the storing of the
\* PDF either goes on to its next step or ends with the error of that step,
\* the submission row still PENDING with no generatedPdfPath; and no step of a
\* processApplication call makes a submission FAILED.
ProcessFailureLeavesPending ==
    [][\A p \in Procs :
          /\ (/\ calls[p].op = "process"
              /\ calls[p].pc \in {"render", "savePdf"}
              /\ calls'[p] # calls[p]) =>
                 \/ calls'[p].pc \in {"savePdf", "updateCompleted"}
                 \/ /\ calls'[p].pc = "idle"
                    /\ response'.outcome = "failed"
                    /\ response'.error \in RenderOrStoreFailures
                    /\ response'.sid = calls[p].sid
                    /\ calls[p].sid \in DOMAIN submissions'
                    /\ submissions'[calls[p].sid].status = PENDING
                    /\ submissions'[calls[p].sid].generatedPdfPath = NoPath
          /\ (calls[p].op = "process" /\ calls'[p] # calls[p]) =>
                 \A id \in DOMAIN submissions' :
                     submissions'[id].status = FAILED =>
                         /\ id \in DOMAIN submissions
                         /\ submissions[id].status = FAILED]_vars

\* A processApplication call failed in the render, its upload stored and its
\* row left PENDING.
ProcessFailedInRender ==
    /\ response.op = "process"
    /\ response.error = "Failed to generate PDF"
    /\ response.sid \in DOMAIN submissions
    /\ submissions[response.sid].status = PENDING
    /\ submissions[response.sid].uploadedFilePath \in DOMAIN files

\* C10: a downloadSubmissionPdf call on a submission with no generatedPdfPath
\* runs reprocessSubmission before it reads a file; once that run has
\* completed, the submission is COMPLETED with a generatedPdfPath that names
\* the file just stored, the reads of the call fail only by an error of the
\* database or of the file system, and the call returns the bytes of that file.
DownloadRegenerates ==
    [][\A p \in Procs :
          /\ (calls[p].pc = "idle" /\ calls'[p].op = "download") =>
                 (calls'[p].pc = "reprocessFind"
                     <=> submissions[calls'[p].sid].generatedPdfPath = NoPath)
          /\ (/\ calls'[p].op = "download"
              /\ calls'[p].pc \in {"refetch", "getFile"}
              /\ calls'[p].pdfBuffer # NoBuffer) =>
                 /\ calls'[p].sid \in DOMAIN submissions'
                 /\ LET row == submissions'[calls'[p].sid]
                    IN  /\ row.status = "completed"
                        /\ row.generatedPdfPath # NoPath
                        /\ row.generatedPdfPath \in DOMAIN files'
                        /\ files'[row.generatedPdfPath] = calls'[p].pdfBuffer
                        /\ row.generatedPdfPath # calls'[p].sub.generatedPdfPath
          /\ (/\ calls[p].op = "download"
              /\ calls[p].pdfBuffer # NoBuffer
              /\ calls[p].pc # "catch"
              /\ calls'[p].pc = "idle") =>
                 \/ /\ response'.outcome = "done"
                    /\ response'.result.buffer = calls[p].pdfBuffer
                    /\ response'.result.mimeType = "application/pdf"
                    /\ submissions'[calls[p].sid].status = "completed"
                    /\ response'.result.buffer
                           = files'[submissions'[calls[p].sid].generatedPdfPath]
                 \/ /\ response'.outcome = "failed"
                    /\ calls[p].pc \in {"refetch", "getFile"}
                    /\ response'.error \in {"Failed to find submission",
                                            "Failed to read file"}]_vars

\* A download is about to read the PDF it regenerated for a submission that
\* was FAILED and had no generatedPdfPath.
DownloadHealedFailed ==
    \E p \in Procs :
        /\ calls[p].op = "download"
        /\ calls[p].pc = "getFile"
        /\ calls[p].sub.status = FAILED
        /\ calls[p].sub.generatedPdfPath = NoPath
        /\ submissions[calls[p].sid].status = COMPLETED
        /\ calls[p].pdfPath = submissions[calls[p].sid].generatedPdfPath

\* The bytes are a PDF rendered for submission id, row its stored row.
IsRenderOf(bytes, id, row) ==
    /\ bytes.header = "%PDF"
    /\ bytes.content[1] = "render"
    /\ bytes.content[2] = id
    /\ bytes.content[3] = row.userId
    /\ bytes.content[4] = row.jobDescription

\* C11: a downloadSubmissionPdf call on the submission the processApplication
\* call before it completed returns the bytes that call rendered and stored,
\* with mimeType application/pdf, and they begin with %PDF; every stored file a
\* generatedPdfPath names begins with %PDF and is a render of its submission.
DownloadRoundTrip ==
    [][/\ \A id \in DOMAIN submissions' :
              submissions'[id].generatedPdfPath \in DOMAIN files' =>
                  IsRenderOf(files'[submissions'[id].generatedPdfPath], id,
                             submissions'[id])
       /\ \A p \in Procs :
              (/\ calls[p].op = "download"
               /\ calls'[p].pc = "idle"
               /\ response.op = "process"
               /\ response.outcome = "done"
               /\ response.sid = calls[p].sid) =>
                  /\ calls[p].pc = "getFile"
                  /\ calls[p].pdfBuffer = NoBuffer
                  /\ \/ /\ response'.outcome = "failed"
                        /\ response'.error = "Failed to read file"
                     \/ /\ response'.outcome = "done"
                        /\ response'.result.mimeType = "application/pdf"
                        /\ response'.result.buffer.header = "%PDF"
                        /\ IsRenderOf(response'.result.buffer, calls[p].sid,
                                      submissions'[calls[p].sid])
                        /\ response'.result.buffer
                               = files'[submissions'[calls[p].sid].generatedPdfPath]]_vars

\* A download is reading the PDF of the submission that the processApplication
\* call before it completed, a second submission being stored.
DownloadOfFreshSubmission ==
    \E p \in Procs :
        /\ calls[p].op = "download"
        /\ calls[p].pc = "getFile"
        /\ response.op = "process"
        /\ response.outcome = "done"
        /\ response.sid = calls[p].sid
        /\ Cardinality(DOMAIN submissions) = 2

\* The stored files that were generated for submission id: saveFile puts them
\* under the directory named by the id.
GeneratedFor(id, storage) == {path \in DOMAIN storage : path[2] = id}

\* C12: when a deleteSubmission call returns and neither file deletion failed
\* (the uploaded file and the PDF the row named are gone), the row is gone and
\* storage holds no PDF generated for the submission, whatever ran before.
DeleteLeavesNoFile ==
    [][\A p \in Procs :
          (/\ calls[p].op = "delete"
           /\ calls[p].pc = "deleteRow"
           /\ calls'[p].pc = "idle"
           /\ response'.outcome = "done"
           /\ calls[p].sub.uploadedFilePath \notin DOMAIN files'
           /\ calls[p].sub.generatedPdfPath \notin DOMAIN files') =>
              /\ calls[p].sid \notin DOMAIN submissions'
              /\ GeneratedFor(calls[p].sid, files') = {}]_vars

\* C13: a deleteSubmission call for an id that names no submission ends at once
\* with 'Submission not found' (or the error of the lookup), no file and no row
\* touched; the two file deletions never end the call, whether they delete the
\* file or fail, and leave the rows alone; the deletion of the row either removes
\* it and returns, or fails and throws its error to the caller.
DeleteBestEffortOnFiles ==
    [][/\ (started' # started /\ calls' = calls /\ response'.op = "delete") =>
              /\ response'.outcome = "failed"
              /\ response'.error \in {"Submission not found", "Failed to find submission"}
              /\ (response'.sid \notin DOMAIN submissions
                     /\ response'.error # "Failed to find submission"
                        => response'.error = "Submission not found")
              /\ UNCHANGED <<files, submissions, users>>
       /\ \A p \in Procs :
              /\ (calls'[p].op = "delete" /\ calls[p].pc = "idle") =>
                     /\ calls'[p].sid \in DOMAIN submissions
                     /\ calls'[p].sub = submissions[calls'[p].sid]
                     /\ UNCHANGED <<files, submissions, users>>
              /\ (calls[p].pc \in {"deleteUpload", "deletePdf"}) =>
                     /\ calls'[p].pc \in {"deleteUpload", "deletePdf", "deleteRow"}
                     /\ UNCHANGED submissions
              /\ (calls[p].pc = "deleteRow" /\ calls'[p].pc = "idle") =>
                     \/ /\ response'.outcome = "done"
                        /\ calls[p].sid \notin DOMAIN submissions'
                     \/ /\ response'.outcome = "failed"
                        /\ response'.error \in {"Failed to delete submission",
                                                "Submission not found"}
                        /\ UNCHANGED submissions]_vars

\* The row is about to be deleted although neither of its files could be.
DeletingRowWithFilesLeft ==
    \E p \in Procs :
        /\ calls[p].pc = "deleteRow"
        /\ calls[p].sub.uploadedFilePath \in DOMAIN files
        /\ calls[p].sub.generatedPdfPath \in DOMAIN files

\* The email of the forms, trimmed and lower-cased: a@b.aa
TrimmedLowerEmail == <<<<"a", 1>>, <<"@", 1>>, <<"b", 1>>, <<".", 1>>, <<"a", 2>>>>

\* C14: successive processApplication calls whose emails are a@b.aa once
\* trimmed and lower-cased (" A@b.aa" among them) get submission ids that no
\* earlier submission has, all owned by one user id: the only user row, whose
\* stored email is the trimmed lower-cased form.
FindOrCreateIdempotent ==
    [][/\ \A u \in 1..Len(users') : users'[u].email = TrimmedLowerEmail
       /\ Len(users') <= 1
       /\ \A p \in Procs :
              (calls[p].pc = "createSubmission" /\ subCount' # subCount) =>
                  /\ subCount' \notin DOMAIN submissions
                  /\ DOMAIN submissions' = DOMAIN submissions \cup {subCount'}
                  /\ calls'[p].sid = subCount'
                  /\ submissions'[subCount'].userId = 1
                  /\ users[1].email = TrimmedLowerEmail
                  /\ \A id \in DOMAIN submissions' : submissions'[id].userId = 1
       /\ (CallEnds /\ response'.op = "process" /\ response'.outcome = "done") =>
              /\ response'.result.submissionId = response'.sid
              /\ submissions'[response'.sid].userId = 1]_vars

\* The second call, made with " A@b.aa", found the user of the first, which
\* returned with a@b.aa, and is about to create its own submission.
SecondCallFoundUser ==
    \E p \in Procs :
        /\ calls[p].pc = "createSubmission"
        /\ calls[p].form = FormAdaRaw
        /\ response.op = "process"
        /\ response.outcome = "done"
        /\ Len(users) = 1
        /\ submissions[response.sid].userId = calls[p].userId

RejectedUploads ==
    {UploadExeType, UploadEmpty, UploadTooLarge, UploadNoName, UploadLongName,
     UploadExeName, UploadDotDot, UploadTxtName, UploadNoHeader}

\* C16: a processApplication call given an upload that validateFileUpload or
\* the storage's saveFile checks reject never creates a submission row and
\* never gets past the saving of the upload: it fails, at the latest there,
\* and stores no file.
RejectedUploadCreatesNoRow ==
    [][/\ \A p \in Procs :
              /\ calls'[p].upload \in RejectedUploads =>
                     calls'[p].pc \in {"createUser", "saveFile"}
              /\ calls[p].upload \in RejectedUploads =>
                     /\ UNCHANGED <<submissions, subCount, files, fileCount>>
                     /\ calls'[p].pc \in {"createUser", "saveFile", "idle"}
                     /\ calls'[p].pc = "idle" => response'.outcome = "failed"
       /\ (CallEnds /\ response'.op = "process"
              /\ response'.upload \in RejectedUploads) =>
                 /\ response'.outcome = "failed"
                 /\ response'.error \in
                        {"Validation failed", "File validation failed",
                         "Failed to find user by email",
                         "A user with this email already exists",
                         "Failed to create user", "Failed to save file"}
                 /\ UNCHANGED <<submissions, subCount, files, fileCount>>]_vars

\* The storage turned down an upload that validateFileUpload had let through,
\* after the user of the call was created.
StorageRejectedUpload ==
    /\ response.op = "process"
    /\ response.error = "Failed to save file"
    /\ response.upload \in {UploadTxtName, UploadNoHeader}
    /\ Len(users) = 1
    /\ DOMAIN submissions = {}
    /\ DOMAIN files = {}

\* C19: in every reachable state each submission's uploadedFilePath lies under
\* uploads/<scope>/ and each submission's generatedPdfPath lies in the
\* generated/ namespace, never under uploads/.
GeneratedPdfsInOwnNamespace ==
    \A id \in DOMAIN submissions :
        LET row == submissions[id]
        IN  /\ row.uploadedFilePath # NoPath =>
                   /\ row.uploadedFilePath[1] = "uploads"
                   /\ row.uploadedFilePath[2] \in {0, id}
            /\ row.generatedPdfPath # NoPath =>
                   /\ row.generatedPdfPath[1] = "generated"
                   /\ row.generatedPdfPath[1] # "uploads"

\* The absolute path is the directory dir or lies below it, segment by segment.
IsWithin(path, dir) ==
    Len(path) >= Len(dir) /\ SubSeq(path, 1, Len(dir)) = dir

\* C17: a getFile, deleteFile or getFileMetadata call whose path resolves to
\* neither the storage root nor a descendant of it fails with the
\* path-traversal error and reads, deletes or stats no file.
EscapingPathsRefused ==
    [][(/\ response'.op \in {"getFile", "deleteFile", "getFileMetadata"}
        /\ ~IsWithin(resolve(FullPath(response'.filePath)), BaseUploadDir)) =>
           /\ response'.outcome = "failed"
           /\ response'.error[2] = "Invalid file path: Path traversal detected"
           /\ response'.value = <<>>
           /\ files' = files]_vars

\* C18: saveFile rejects, before anything is written, a buffer longer than the
\* maximum, a MIME type outside the allow-list, a name whose extension does
\* not match the type and a PDF buffer that does not begin with %PDF, and then
\* leaves the storage as it was; a save that returns has stored exactly the
\* given bytes under the path it returns, a new path, beside the files that
\* were there.
SaveFileChecksThenStores ==
    [][response'.op = "saveFile" =>
           LET input == response'.input
               stored == BaseUploadDir \o response'.value.filePath
           IN  /\ (\/ input.file.length > 10485760
                   \/ input.mimeType # "application/pdf"
                   \/ input.originalName # Str(<<"a", ".", "p", "d", "f">>)
                   \/ input.file.header # "%PDF") =>
                      /\ response'.outcome = "failed"
                      /\ response'.error[1] = "Failed to save file"
                      /\ UNCHANGED <<files, fileCount>>
               /\ response'.outcome = "done" =>
                      /\ stored \notin DOMAIN files
                      /\ stored \in DOMAIN files'
                      /\ files'[stored] = input.file
                      /\ response'.value.fileSize = input.file.length
                      /\ IsWithin(stored, BaseUploadDir \o <<UploadsDir>>)
                      /\ \A f \in DOMAIN files : f \in DOMAIN files' /\ files'[f] = files[f]
                      /\ \A f \in DOMAIN files' \ DOMAIN files :
                             f = stored \/ files'[f] = Directory]_vars

\* A second file was saved beside the first.
SavedSecondFile ==
    /\ response.op = "saveFile"
    /\ response.outcome = "done"
    /\ fileCount = 2
    /\ Cardinality({f \in DOMAIN files :
                       /\ files[f] # Directory
                       /\ IsWithin(f, BaseUploadDir)}) = 2

ViolatesValidation(form) ==
    ~applicationFormSchema(form) \/ ~validateAndSanitizeFormData(form).isValid

\* C21: every POST /submissions whose fields violate a validation rule, of the
\* route's schema or of the service's validation, is answered with status 400,
\* and persists nothing.
InvalidPostAnswers400 ==
    [][(/\ CallEnds
        /\ response'.op = "process"
        /\ response'.form # <<>>
        /\ ViolatesValidation(response'.form)) =>
          /\ HttpStatus(response') = 400
          /\ users' = users
          /\ submissions' = submissions
          /\ files' = files]_vars

\* C22: for a well-formed id that names no submission, DELETE /submissions/{id},
\* POST /submissions/{id}/reprocess and GET /submissions/{id}/download answer
\* with status 404, and change no stored state.
AbsentIdAnswers404 ==
    [][(/\ started' # started
        /\ calls' = calls
        /\ response'.op \in {"delete", "reprocess", "download"}
        /\ isValidUUID(Cuid(response'.sid))
        /\ response'.sid \notin DOMAIN submissions
        /\ response'.error = "Submission not found") =>
          /\ HttpStatus(response') = 404
          /\ users' = users
          /\ submissions' = submissions
          /\ files' = files]_vars

(* ------------------------------------------------------------------ *)
(* The rendered document                                              *)
(* ------------------------------------------------------------------ *)

\* C23: the document a render produces has a RESUME section exactly when the
\* submission has an attached upload (uploadedFileName and uploadedFilePath
\* both set), in processApplication and in every reprocess; the section lists
\* the original file name and 'Successfully Uploaded', and between them the
\* size of the stored file or, when the metadata cannot be read, nothing.
ResumeSectionIffUpload ==
    [][\A p \in Procs :
          (calls[p].pc = "render" /\ calls'[p].pc = "savePdf") =>
              LET row == calls[p].sub
                  section == calls'[p].pdfBuffer.content[5]
                  attached == row.uploadedFileName # <<>> /\ row.uploadedFilePath # NoPath
                  title == [label |-> "RESUME", value |-> <<>>]
                  name == [label |-> "File Name:", value |-> row.uploadedFileName]
                  status == [label |-> "Status:",
                             value |-> <<<<"Successfully Uploaded", 1>>>>]
              IN  /\ (section # <<>>) <=> attached
                  /\ attached =>
                        \/ section = <<title, name, status>>
                        \/ /\ row.uploadedFilePath \in DOMAIN files
                           /\ Len(section) = 4
                           /\ section[1] = title
                           /\ section[2] = name
                           /\ section[3].label = "File Size:"
                           /\ section[3].value =
                                 <<<<"/10 MB",
                                     (files[row.uploadedFilePath].length * 10 + 524288)
                                         \div 1048576>>>>
                           /\ section[4] = status]_vars

\* A reprocess has rendered the document of a submission whose upload's
\* metadata could not be read: the section has no size line.
ReprocessRenderedWithoutSize ==
    \E p \in Procs :
        /\ calls[p].op = "reprocess"
        /\ calls[p].pc = "savePdf"
        /\ calls[p].sub.uploadedFilePath # NoPath
        /\ Len(calls[p].pdfBuffer.content[5]) = 3

(* ------------------------------------------------------------------ *)
(* Pagination                                                         *)
(* ------------------------------------------------------------------ *)

\* C24: a listing (findByUserId) asked with a limit above 100 is served with
\* limit exactly 100; a page of 0 or below is rejected; absent values default
\* to page 1 and limit 10; so a listing that is served has an effective limit
\* within 1..100, which also bounds the number of rows it returns.
PaginationBounded ==
    (response.op = "findByUserId" /\ response.outcome = "done") =>
        /\ (Has(response.options, "limit") /\ response.options.limit > 100 =>
                response.value.take = 100)
        /\ (~Has(response.options, "limit") => response.value.take = 10)
        /\ (Has(response.options, "page") => response.options.page >= 1)
        /\ response.value.take \in 1..100
        /\ Len(response.value.submissions) <= 100

(* ------------------------------------------------------------------ *)
(* retryOperation                                                     *)
(* ------------------------------------------------------------------ *)

\* The invocation threw an AppError with isOperational = true.
ThrewOperational(o) ==
    o.throws /\ o.error.class = "AppError" /\ o.error.isOperational

\* C25: retryOperation never retries an operational error: once an attempt
\* throws an AppError with isOperational = true, the operation is not invoked
\* again and that error is thrown to the caller, whatever maxRetries is.
OperationalErrorNotRetried ==
    /\ \A p \in Procs : \A i \in 1..Len(calls[p].outcomes) :
          ~ThrewOperational(calls[p].outcomes[i])
    /\ \A i \in 1..Len(response.outcomes) :
          ThrewOperational(response.outcomes[i]) =>
              /\ i = Len(response.outcomes)
              /\ response.outcome = "thrown"
              /\ response.error = response.outcomes[i].error

\* A call with maxRetries 3 ended at its first attempt, which threw an
\* operational error.
ThrewOperationalAtOnce ==
    /\ response.maxRetries = 3
    /\ Len(response.outcomes) = 1
    /\ ThrewOperational(response.outcomes[1])
    /\ response.outcome = "thrown"

\* What holds of the invocations of a call with maxRetries >= 1, in flight or
\* ended: at most maxRetries of them, none after one that succeeded.
AttemptsBounded(maxRetries, outcomes) ==
    maxRetries >= 1 =>
        /\ Len(outcomes) <= maxRetries
        /\ \A i \in 1..Len(outcomes) : ~outcomes[i].throws => i = Len(outcomes)

\* The attempts of every call are bounded, and a call that has ended returned
\* the value or threw the error of its last attempt.
RetryResult ==
    /\ \A p \in Procs : AttemptsBounded(calls[p].maxRetries, calls[p].outcomes)
    /\ AttemptsBounded(response.maxRetries, response.outcomes)
    /\ (response.outcome # "none" /\ response.maxRetries >= 1) =>
          LET last == response.outcomes[Len(response.outcomes)]
          IN  /\ Len(response.outcomes) >= 1
              /\ IF last.throws
                 THEN response.outcome = "thrown" /\ response.error = last.error
                 ELSE response.outcome = "returned" /\ response.value = last.value

\* C30: for maxRetries >= 1, retryOperation always terminates after invoking
\* the operation at most maxRetries times: it returns the result of the first
\* attempt that succeeds without any further attempt, and otherwise throws the
\* error thrown by the last attempt it made.
RetryTerminates ==
    /\ []RetryResult
    /\ \A p \in {1} : (calls[p].pc # "idle") ~> (calls[p].pc = "idle")

\* A call with maxRetries 3 made three attempts and threw the error of the
\* third, which is not the error of the first.
ThrewLastOfThree ==
    /\ response.maxRetries = 3
    /\ Len(response.outcomes) = 3
    /\ response.outcome = "thrown"
    /\ response.error = response.outcomes[3].error
    /\ response.error # response.outcomes[1].error

(* ------------------------------------------------------------------ *)
(* Overlapping reprocess calls                                        *)
(* ------------------------------------------------------------------ *)

\* C26: reprocessSubmission calls on the same submission are not serialized:
\* each writes its own final status, whatever the other has written since this
\* call set PROCESSING.  So once the call that writes last has written, the
\* stored status is that call's final status (COMPLETED or FAILED), and if it
\* is COMPLETED the stored generatedPdfPath is the path that same call
\* produced; the call returns COMPLETED or throws accordingly.
ReprocessLastWriteWins ==
    [][\A p \in Procs :
          LET c == calls[p]
              id == c.sid
          IN  (/\ c.op = "reprocess"
               /\ calls'[p].pc = "idle"
               /\ id \in DOMAIN submissions) =>
                  /\ c.pc = "updateCompleted" =>
                        /\ submissions'[id].status = "completed"
                        /\ submissions'[id].generatedPdfPath = c.pdfPath
                        /\ c.pdfPath # NoPath
                        /\ response'.outcome = "done"
                        /\ response'.result.status = "completed"
                  /\ (c.pc = "catch" /\ submissions' # submissions) =>
                        /\ submissions'[id].status = "failed"
                        /\ response'.outcome = "failed"
                  /\ \A other \in DOMAIN submissions \ {id} :
                        submissions'[other] = submissions[other]]_vars

\* A reprocess call that has set PROCESSING is about to write its final status
\* while the stored status is COMPLETED: the other caller's reprocess of the
\* same submission has written COMPLETED and returned in between.
ReprocessOverlapped ==
    \E p \in Procs :
        /\ calls[p].op = "reprocess"
        /\ calls[p].pc \in {"updateCompleted", "catch"}
        /\ calls[p].sid \in DOMAIN submissions
        /\ submissions[calls[p].sid].status = COMPLETED
        /\ response.op = "reprocess"
        /\ response.sid = calls[p].sid
        /\ response.outcome = "done"

\* C27: a submission is in status PROCESSING only while a reprocessSubmission
\* call on it (direct, or the one a download runs) is in flight: once every
\* such call has returned or thrown, the status of a submission that still
\* exists is COMPLETED or FAILED, whichever step of the reprocess failed.
ProcessingOnlyInFlight ==
    \A id \in DOMAIN submissions :
        submissions[id].status = "processing" =>
            \E p \in Procs :
                /\ calls[p].pc # "idle"
                /\ calls[p].op \in {"reprocess", "download"}
                /\ calls[p].sid = id

(* ------------------------------------------------------------------ *)
(* No rollback                                                        *)
(* ------------------------------------------------------------------ *)

\* C28: processApplication rolls nothing back: when a step after
\* find-or-create-user fails (upload save, submission create, render, PDF
\* save, status update), the user row of the call remains, every stored file
\* (the upload of the call among them) remains, every submission row remains;
\* and every submission row that exists references an existing user.
NoRollbackInProcess ==
    [][/\ \A p \in Procs :
            LET c == calls[p]
            IN  (/\ c.op = "process"
                 /\ c.userId # 0
                 /\ calls'[p].pc = "idle"
                 /\ response'.outcome = "failed") =>
                    /\ c.userId \in 1..Len(users')
                    /\ users'[c.userId] = users[c.userId]
                    /\ \A f \in DOMAIN files :
                          f \in DOMAIN files' /\ files'[f] = files[f]
                    /\ c.filePath # NoPath => c.filePath \in DOMAIN files'
                    /\ \A id \in DOMAIN submissions :
                          id \in DOMAIN submissions' /\ submissions'[id] = submissions[id]
       /\ \A id \in DOMAIN submissions' :
            submissions'[id].userId \in 1..Len(users')]_vars

\* A processApplication call has failed in the render: the user it created,
\* the upload it stored and the submission row it created (still PENDING) are
\* all there.
ProcessFailedLeavingAll ==
    /\ response.op = "process"
    /\ response.outcome = "failed"
    /\ response.error = "Failed to generate PDF"
    /\ response.sid \in DOMAIN submissions
    /\ submissions[response.sid].status = PENDING
    /\ submissions[response.sid].uploadedFilePath \in DOMAIN files
    /\ submissions[response.sid].userId \in 1..Len(users)

(* ------------------------------------------------------------------ *)
(* Download of a stored PDF                                           *)
(* ------------------------------------------------------------------ *)

====
